---- MODULE Spec2Model ----
(***************************************************************************)
(* Model of mwf: the route resolution engine (StandardResolver in          *)
(* resolution.rs and routing.rs) and the Router built by RouterBuilder     *)
(* (routing.rs).                                                           *)
(*                                                                         *)
(* A string is a sequence of one-character strings; "" is << >>.           *)
(* A RouteMap is a function from names (strings) to values (strings).      *)
(***************************************************************************)
EXTENDS Integers, Sequences, FiniteSets, TLC

VARIABLES
    phase,        \* "build" (RouterBuilder) or "serve" (Router)
    binds,        \* the calls of RouterBuilder.bind so far, in order
    resolvers,    \* RouterBuilder.resolvers / Router.resolvers
    request,      \* the path of the last request given to Router.handle
    consulted,    \* the resolvers Router.handle called for it, with their outcomes
    invoked,      \* the handlers Router.handle called for it, with their data
    result,       \* what Router.handle returned for it
    sr,           \* a StandardResolver called directly (both implementations)
    params,       \* the ResolveParams of the last direct call
    outs,         \* the outcomes of the last direct call
    pages,        \* server.rs ServerBuilder.pages: HashMap from spec to handler
    page_not_found, \* server.rs ServerBuilder.page_not_found / Server.page_not_found
    threads,      \* server.rs: the requests in flight, one per worker thread
    lock,         \* server.rs: the RwLock around the Server
    the_view,     \* the View a handler is building
    applied       \* the decorators applied to it so far, in order

vars == <<phase, binds, resolvers, request, consulted, invoked, result, sr, params,
          outs, pages, page_not_found, threads, lock, the_view, applied>>

routerVars == <<phase, binds, resolvers, request, consulted, invoked, result>>

resolverVars == <<sr, params, outs>>

serverVars == <<pages, page_not_found, threads, lock>>

viewVars == <<the_view, applied>>

-----------------------------------------------------------------------------
(* Bounds *)

MaxSpecLen == 3

MaxEntries == 2

MaxRawLen == 2

MaxStrLen == 4

MaxChain == 2

MaxChunks == 5

-----------------------------------------------------------------------------
(* Strings *)

EmptyStr == << >>

starts_with(s, c) == Len(s) > 0 /\ s[1] = c

ends_with(s, c) == Len(s) > 0 /\ s[Len(s)] = c

is_empty(s) == Len(s) = 0

SeqsUpTo(S, n) == UNION {[1..k -> S] : k \in 0..n}

\* str::split("/"): the pieces between the slashes, empty pieces included
RECURSIVE split(_)
split(s) ==
    IF \A p \in 1..Len(s) : s[p] # "/"
    THEN <<s>>
    ELSE LET p == CHOOSE q \in 1..Len(s) :
                      s[q] = "/" /\ \A r \in 1..(q - 1) : s[r] # "/"
         IN  <<SubSeq(s, 1, p - 1)>> \o split(SubSeq(s, p + 1, Len(s)))

-----------------------------------------------------------------------------
(* RouteMap and the outcomes of resolve *)

EmptyMap == << >>

\* HashMap::insert keeping the ':' out of the key
insert_unprefixed(map, name, value) ==
    [k \in DOMAIN map \cup {Tail(name)} |->
        IF k = Tail(name) THEN value ELSE map[k]]

\* HashMap::insert leaving out an entry whose value is empty
insert_nonempty(map, name, value) ==
    IF value = << >>
    THEN map
    ELSE [k \in DOMAIN map \cup {name} |-> IF k = name THEN value ELSE map[k]]

\* HashMap::insert: the map afterwards (a value already there is replaced)
insert(map, name, value) ==
    [k \in DOMAIN map \cup {name} |-> IF k = name THEN value ELSE map[k]]

\* the result of insert never looked at
insert_returns_some_ignored(map, name) == FALSE

\* HashMap::insert: whether it returns Some(old value)
insert_returns_some(map, name) == name \in DOMAIN map

\* a comparison of the lengths alone
str_ne_len(actual, expected) == Len(actual) # Len(expected)

\* actual != expected
str_ne(actual, expected) == actual # expected

\* Option<RouteMap>, and the panic that unwinds out of resolve.
\* writes: the keys given to map.insert, in order.
ResolveNone == [kind |-> "None", map |-> EmptyMap, writes |-> << >>]

ResolvePanic == [kind |-> "Panic", map |-> EmptyMap, writes |-> << >>]

ResolveSome(map, writes) == [kind |-> "Some", map |-> map, writes |-> writes]

-----------------------------------------------------------------------------
(* StandardResolver, routing.rs *)

\* StandardResolver::new without the test for a trailing '?'
routing_token_no_optional(spec) ==
    IF starts_with(spec, ":")
    THEN [kind |-> "Variable", text |-> spec]
    ELSE [kind |-> "Literal", text |-> spec]

\* one RouteSpec of StandardResolver::new
routing_token(spec) ==
    IF starts_with(spec, ":")
    THEN IF ends_with(spec, "?")
         THEN [kind |-> "Optional", text |-> spec]
         ELSE [kind |-> "Variable", text |-> spec]
    ELSE [kind |-> "Literal", text |-> spec]

routing_new(route) == [i \in 1..Len(route) |-> routing_token(route[i])]

\* the while loop of resolve and the check after it; i and j count from 0
RECURSIVE routing_resolve_loop(_, _, _, _, _, _)
routing_resolve_loop(self, route, i, j, map, writes) ==
    IF i >= Len(self)
    THEN IF j < Len(route) THEN ResolveNone ELSE ResolveSome(map, writes)
    ELSE LET expected == self[i + 1]
             present == j < Len(route)
             actual == IF present THEN route[j + 1] ELSE EmptyStr
         IN  CASE expected.kind = "Literal" ->
                    IF ~present THEN ResolveNone
                    ELSE IF str_ne(actual, expected.text) THEN ResolveNone
                    ELSE routing_resolve_loop(self, route, i + 1, j + 1, map, writes)
               [] expected.kind = "Variable" ->
                    IF ~present THEN ResolveNone
                    ELSE IF insert_returns_some(map, expected.text) THEN ResolvePanic
                    ELSE routing_resolve_loop(self, route, i + 1, j + 1,
                             insert(map, expected.text, actual),
                             Append(writes, expected.text))
               [] expected.kind = "Optional" ->
                    LET text == IF present THEN actual ELSE EmptyStr
                    IN  IF insert_returns_some(map, expected.text) THEN ResolvePanic
                        ELSE routing_resolve_loop(self, route, i + 1, j + 1,
                                 insert(map, expected.text, text),
                                 Append(writes, expected.text))

\* resolve without the check for segments left over: the route is matched
\* as far as the specification goes
routing_resolve_prefix(self, route) ==
    routing_resolve_loop(self,
        IF Len(route) > Len(self) THEN SubSeq(route, 1, Len(self)) ELSE route,
        0, 0, EmptyMap, << >>)

routing_resolve(self, route) ==
    routing_resolve_loop(self, route, 0, 0, EmptyMap, << >>)

-----------------------------------------------------------------------------
(* StandardResolver, resolution.rs *)

Methods == {"Get", "Post"}

\* one Token of StandardResolver::new
resolution_token(token) ==
    IF starts_with(token, ":")
    THEN IF ends_with(token, "?")
         THEN [kind |-> "Optional", text |-> token]
         ELSE [kind |-> "Variable", text |-> token]
    ELSE [kind |-> "Literal", text |-> token]

resolution_new(method, spec) ==
    [method |-> method,
     spec |-> [i \in 1..Len(spec) |-> resolution_token(spec[i])]]

\* the while loop of resolve and the check after it; i counts from 0
RECURSIVE resolution_resolve_loop(_, _, _, _, _)
resolution_resolve_loop(spec, route, i, map, writes) ==
    IF i >= Len(spec)
    THEN IF i < Len(route) THEN ResolveNone ELSE ResolveSome(map, writes)
    ELSE LET expected == spec[i + 1]
             present == i < Len(route)
             actual == IF present THEN route[i + 1] ELSE EmptyStr
         IN  CASE expected.kind = "Literal" ->
                    IF ~present THEN ResolveNone
                    ELSE IF str_ne(actual, expected.text) THEN ResolveNone
                    ELSE resolution_resolve_loop(spec, route, i + 1, map, writes)
               [] expected.kind = "Variable" ->
                    IF ~present THEN ResolveNone
                    ELSE IF insert_returns_some(map, expected.text) THEN ResolvePanic
                    ELSE resolution_resolve_loop(spec, route, i + 1,
                             insert(map, expected.text, actual),
                             Append(writes, expected.text))
               [] expected.kind = "Optional" ->
                    LET text == IF present THEN actual ELSE EmptyStr
                    IN  IF insert_returns_some(map, expected.text) THEN ResolvePanic
                        ELSE resolution_resolve_loop(spec, route, i + 1,
                                 insert(map, expected.text, text),
                                 Append(writes, expected.text))

\* resolve without the comparison of the request methods
resolution_resolve_any_method(self, p) ==
    resolution_resolve_loop(self.spec, p.route, 0, EmptyMap, << >>)

\* resolve that, when the route is refused, tries once more with the first
\* Optional left out and bound to the empty string
resolution_resolve_backtracking(self, p) ==
    LET greedy == resolution_resolve_loop(self.spec, p.route, 0, EmptyMap, << >>)
        optionals == {k \in 1..Len(self.spec) : self.spec[k].kind = "Optional"}
    IN  IF p.method # self.method THEN ResolveNone
        ELSE IF greedy.kind # "None" \/ optionals = {} THEN greedy
        ELSE LET k == CHOOSE o \in optionals : \A e \in optionals : o <= e
                 rest == SubSeq(self.spec, 1, k - 1)
                             \o SubSeq(self.spec, k + 1, Len(self.spec))
                 again == resolution_resolve_loop(rest, p.route, 0, EmptyMap, << >>)
             IN  IF again.kind = "Some"
                 THEN ResolveSome(insert(again.map, self.spec[k].text, EmptyStr),
                                  Append(again.writes, self.spec[k].text))
                 ELSE greedy

resolution_resolve(self, p) ==
    IF p.method # self.method
    THEN ResolveNone
    ELSE resolution_resolve_loop(self.spec, p.route, 0, EmptyMap, << >>)

-----------------------------------------------------------------------------
(* RequestHandler and Router, routing.rs *)

\* The handlers a program registers: one that yields a view and one that
\* yields an error.
Handlers == {"page", "fail"}

NoValue == [ok |-> FALSE, handler |-> "none", data |-> EmptyMap]

\* RequestHandler::handle: the ViewResult of handler for route_map
handler_handle(handler, route_map) ==
    IF handler = "fail"
    THEN [ok |-> FALSE, handler |-> handler, data |-> EmptyMap]
    ELSE [ok |-> TRUE, handler |-> handler, data |-> route_map]

NotHandled == [kind |-> "NotHandled", value |-> NoValue]

HandleNone == [kind |-> "None", value |-> NoValue]

HandlePanic == [kind |-> "Panic", value |-> NoValue]

HandleSome(v) == [kind |-> "Some", value |-> v]

\* the pieces of a split kept as they are, the empty ones too
remove_empty_kept(pieces) == pieces

\* the filter_map of RouterBuilder::bind and of Router::handle
remove_empty(pieces) == SelectSeq(pieces, LAMBDA it : ~is_empty(it))

\* the for loop of Router::handle from entry k (counted from 1) on
RECURSIVE Router_handle_loop(_, _, _, _)
Router_handle_loop(entries, route, k, seen) ==
    IF k > Len(entries)
    THEN [consulted |-> seen, invoked |-> << >>, result |-> HandleNone]
    ELSE LET data == routing_resolve(entries[k].resolver, route)
             now == Append(seen, [entry |-> k, data |-> data])
         IN  CASE data.kind = "None" ->
                    Router_handle_loop(entries, route, k + 1, now)
               [] data.kind = "Panic" ->
                    [consulted |-> now, invoked |-> << >>, result |-> HandlePanic]
               [] data.kind = "Some" ->
                    [consulted |-> now,
                     invoked |-> <<[entry |-> k, data |-> data.map]>>,
                     result |-> HandleSome(
                         handler_handle(entries[k].handler, data.map))]

\* Router::handle without the return: every accepting entry's handler runs
\* and the last one's result is given back
RECURSIVE Router_handle_loop_noreturn(_, _, _, _, _, _)
Router_handle_loop_noreturn(entries, route, k, seen, calls, last) ==
    IF k > Len(entries)
    THEN [consulted |-> seen, invoked |-> calls, result |-> last]
    ELSE LET data == routing_resolve(entries[k].resolver, route)
             now == Append(seen, [entry |-> k, data |-> data])
         IN  CASE data.kind = "None" ->
                    Router_handle_loop_noreturn(entries, route, k + 1, now, calls, last)
               [] data.kind = "Panic" ->
                    [consulted |-> now, invoked |-> calls, result |-> HandlePanic]
               [] data.kind = "Some" ->
                    Router_handle_loop_noreturn(entries, route, k + 1, now,
                        Append(calls, [entry |-> k, data |-> data.map]),
                        HandleSome(handler_handle(entries[k].handler, data.map)))

Router_handle_noreturn(entries, path) ==
    Router_handle_loop_noreturn(entries, remove_empty(path), 1, << >>, << >>,
                                HandleNone)

\* Router::handle treating a handler's Err like a resolver's None
RECURSIVE Router_handle_loop_skiperr(_, _, _, _, _)
Router_handle_loop_skiperr(entries, route, k, seen, calls) ==
    IF k > Len(entries)
    THEN [consulted |-> seen, invoked |-> calls, result |-> HandleNone]
    ELSE LET data == routing_resolve(entries[k].resolver, route)
             now == Append(seen, [entry |-> k, data |-> data])
             view == handler_handle(entries[k].handler, data.map)
             called == Append(calls, [entry |-> k, data |-> data.map])
         IN  CASE data.kind = "None" ->
                    Router_handle_loop_skiperr(entries, route, k + 1, now, calls)
               [] data.kind = "Panic" ->
                    [consulted |-> now, invoked |-> calls, result |-> HandlePanic]
               [] data.kind = "Some" ->
                    IF view.ok
                    THEN [consulted |-> now, invoked |-> called,
                          result |-> HandleSome(view)]
                    ELSE Router_handle_loop_skiperr(entries, route, k + 1, now, called)

Router_handle_skiperr(entries, path) ==
    Router_handle_loop_skiperr(entries, remove_empty(path), 1, << >>, << >>)

\* Router::handle matching the path as it came, empty segments included
Router_handle_unfiltered(entries, path) ==
    Router_handle_loop(entries, path, 1, << >>)

Router_handle(entries, path) ==
    Router_handle_loop(entries, remove_empty(path), 1, << >>)

-----------------------------------------------------------------------------
(* Inputs *)

\* route specifications given to RouterBuilder::bind:
\* "/f", "/:a", "f/:a?", ":a/:a", "/", "/f//:b/"
BindPaths ==
    { <<"/", "f">>,
      <<"/", ":", "a">>,
      <<"f", "/", ":", "a", "?">>,
      <<":", "a", "/", ":", "a">>,
      <<"/">>,
      <<"/", "f", "/", "/", ":", "b", "/">> }

\* the segments of a request path
Segments == {EmptyStr, <<"f">>, <<"g">>}

RequestPaths == SeqsUpTo(Segments, MaxRawLen) \ {<< >>}

\* the tokens given to StandardResolver::new directly
TokenTexts ==
    { <<"f">>, <<"g">>,
      <<":", "a">>, <<":", "b">>,
      <<":", "a", "?">>, <<":", "b", "?">> }

RouteSpecs == SeqsUpTo(TokenTexts, MaxSpecLen)

Routes == SeqsUpTo(Segments, MaxSpecLen + 1)

-----------------------------------------------------------------------------
(* The router: RouterBuilder, then Router *)

NoParams == [method |-> "Get", route |-> << >>, called |-> FALSE]

NoOuts == [resolution |-> ResolveNone, routing |-> ResolveNone]

RootResolver ==
    [resolution |-> resolution_new("Get", << >>), routing |-> routing_new(<< >>)]

\* RwLock::new: nobody holds the lock
NoLock == [readers |-> 0, writer |-> FALSE]

\* no server.rs server in this run
NoServer ==
    /\ pages = << >>
    /\ page_not_found = "none"
    /\ threads = << >>
    /\ lock = NoLock

\* no view under construction in this run
NoView ==
    /\ the_view = [content |-> << >>, mime |-> "none"]
    /\ applied = << >>

\* no direct call of a resolver in this run
NoResolver ==
    /\ sr = RootResolver
    /\ params = NoParams
    /\ outs = NoOuts

Init ==
    /\ phase = "build"
    /\ binds = << >>
    /\ resolvers = << >>
    /\ request = << >>
    /\ consulted = << >>
    /\ invoked = << >>
    /\ result = NotHandled
    /\ sr = RootResolver
    /\ params = NoParams
    /\ outs = NoOuts
    /\ NoServer
    /\ NoView

\* RouterBuilder::bind putting the new entry first instead of last
RouterBuilder_bind_front(entries, path, handler) ==
    LET pieces == remove_empty(split(path))
    IN  <<[resolver |-> routing_new(pieces), handler |-> handler]>> \o entries

\* RouterBuilder::bind leaving out a specification that repeats a token
RouterBuilder_bind_unique(entries, path, handler) ==
    LET pieces == remove_empty(split(path))
    IN  IF \E i, j \in 1..Len(pieces) : i < j /\ pieces[i] = pieces[j]
        THEN entries
        ELSE Append(entries,
                 [resolver |-> routing_new(pieces), handler |-> handler])

\* RouterBuilder::bind: the resolvers after binding path to handler
RouterBuilder_bind(entries, path, handler) ==
    LET pieces == remove_empty(split(path))
    IN  Append(entries, [resolver |-> routing_new(pieces), handler |-> handler])

bind(path, handler) ==
    /\ phase = "build"
    /\ Len(resolvers) < MaxEntries
    /\ binds' = Append(binds, [path |-> path, handler |-> handler])
    /\ resolvers' = RouterBuilder_bind(resolvers, path, handler)
    /\ UNCHANGED <<phase, request, consulted, invoked, result, resolverVars,
                   serverVars, viewVars>>

\* Into<Router> for RouterBuilder
into ==
    /\ phase = "build"
    /\ phase' = "serve"
    /\ UNCHANGED <<binds, resolvers, request, consulted, invoked, result, resolverVars,
                   serverVars, viewVars>>

\* Router::handle
handle(path) ==
    /\ phase = "serve"
    /\ LET h == Router_handle(resolvers, path)
       IN  /\ request' = path
           /\ consulted' = h.consulted
           /\ invoked' = h.invoked
           /\ result' = h.result
    /\ UNCHANGED <<phase, binds, resolvers, resolverVars, serverVars, viewVars>>

Next ==
    \/ \E path \in BindPaths, handler \in Handlers : bind(path, handler)
    \/ into
    \/ \E path \in RequestPaths : handle(path)

Spec == Init /\ [][Next]_vars

-----------------------------------------------------------------------------
(* StandardResolver::resolve called directly, as the unit tests do: a       *)
(* resolver is built, and resolve is called with one ResolveParams         *)

InitResolver ==
    /\ phase = "build"
    /\ binds = << >>
    /\ resolvers = << >>
    /\ request = << >>
    /\ consulted = << >>
    /\ invoked = << >>
    /\ result = NotHandled
    /\ \E method \in Methods, spec \in RouteSpecs :
           sr = [resolution |-> resolution_new(method, spec),
                 routing |-> routing_new(spec)]
    /\ \E method \in Methods, route \in Routes :
           params = [method |-> method, route |-> route, called |-> FALSE]
    /\ outs = NoOuts
    /\ NoServer
    /\ NoView

\* Resolver::resolve of both implementations for the route of params
resolve ==
    /\ ~params.called
    /\ params' = [params EXCEPT !.called = TRUE]
    /\ outs' = [resolution |-> resolution_resolve(sr.resolution,
                                   [method |-> params.method,
                                    route |-> params.route]),
                routing |-> routing_resolve(sr.routing, params.route)]
    /\ UNCHANGED <<sr, routerVars, serverVars, viewVars>>

NextResolver == resolve

SpecResolver == InitResolver /\ [][NextResolver]_vars

-----------------------------------------------------------------------------
(* ServerBuilder, builder.rs: bind registers a handler for GET requests,   *)
(* on for POST requests; start shares the finished Router among the        *)
(* connections.  The RouterBuilder and Router that builder.rs uses take    *)
(* the request method too; they follow sections 4.1 and 4.2 of the         *)
(* specification (Register, Dispatch) with the resolver of resolution.rs.  *)

\* RouterBuilder::bind(method, route, handler): Register
RouterBuilder_bind_method(entries, method, route, handler) ==
    Append(entries,
        [resolver |-> resolution_new(method, remove_empty(split(route))),
         handler |-> handler])

\* ServerBuilder::bind
ServerBuilder_bind(entries, route, handler) ==
    RouterBuilder_bind_method(entries, "Get", route, handler)

\* ServerBuilder::on
ServerBuilder_on(entries, route, handler) ==
    RouterBuilder_bind_method(entries, "Post", route, handler)

\* Dispatch: the entries in registration order, the first match is invoked
RECURSIVE Router_dispatch_loop(_, _, _, _)
Router_dispatch_loop(entries, p, k, seen) ==
    IF k > Len(entries)
    THEN [consulted |-> seen, invoked |-> << >>, result |-> HandleNone]
    ELSE LET data == resolution_resolve(entries[k].resolver, p)
             now == Append(seen, [entry |-> k, data |-> data])
         IN  CASE data.kind = "None" ->
                    Router_dispatch_loop(entries, p, k + 1, now)
               [] data.kind = "Panic" ->
                    [consulted |-> now, invoked |-> << >>, result |-> HandlePanic]
               [] data.kind = "Some" ->
                    [consulted |-> now,
                     invoked |-> <<[entry |-> k, data |-> data.map]>>,
                     result |-> HandleSome(
                         handler_handle(entries[k].handler, data.map))]

Router_dispatch(entries, method, path) ==
    Router_dispatch_loop(entries, [method |-> method, route |-> path], 1, << >>)

\* route specifications given to ServerBuilder: "/f", "/:a", ":a/:a"
BuilderRoutes ==
    { <<"/", "f">>, <<"/", ":", "a">>, <<":", "a", "/", ":", "a">> }

\* request paths as the adapter hands them over: no empty segment
BuilderPaths == SeqsUpTo({<<"f">>, <<"g">>}, MaxRawLen)

NoRequest == [method |-> "Get", path |-> << >>]

InitBuilder ==
    /\ phase = "build"
    /\ binds = << >>
    /\ resolvers = << >>
    /\ request = NoRequest
    /\ consulted = << >>
    /\ invoked = << >>
    /\ result = NotHandled
    /\ NoResolver
    /\ NoServer
    /\ NoView

builder_bind(route, handler) ==
    /\ phase = "build"
    /\ Len(resolvers) < MaxEntries
    /\ binds' = Append(binds,
                    [method |-> "Get", path |-> route, handler |-> handler])
    /\ resolvers' = ServerBuilder_bind(resolvers, route, handler)
    /\ UNCHANGED <<phase, request, consulted, invoked, result, resolverVars,
                   serverVars, viewVars>>

builder_on(route, handler) ==
    /\ phase = "build"
    /\ Len(resolvers) < MaxEntries
    /\ binds' = Append(binds,
                    [method |-> "Post", path |-> route, handler |-> handler])
    /\ resolvers' = ServerBuilder_on(resolvers, route, handler)
    /\ UNCHANGED <<phase, request, consulted, invoked, result, resolverVars,
                   serverVars, viewVars>>

\* ServerBuilder::start
builder_start ==
    /\ phase = "build"
    /\ phase' = "serve"
    /\ UNCHANGED <<binds, resolvers, request, consulted, invoked, result,
                   resolverVars, serverVars, viewVars>>

\* one request served through the shared Router
builder_call(method, path) ==
    /\ phase = "serve"
    /\ LET h == Router_dispatch(resolvers, method, path)
       IN  /\ request' = [method |-> method, path |-> path]
           /\ consulted' = h.consulted
           /\ invoked' = h.invoked
           /\ result' = h.result
    /\ UNCHANGED <<phase, binds, resolvers, resolverVars, serverVars, viewVars>>

NextBuilder ==
    \/ \E route \in BuilderRoutes, handler \in Handlers : builder_bind(route, handler)
    \/ \E route \in BuilderRoutes, handler \in Handlers : builder_on(route, handler)
    \/ builder_start
    \/ \E method \in Methods, path \in BuilderPaths : builder_call(method, path)

SpecBuilder == InitBuilder /\ [][NextBuilder]_vars

-----------------------------------------------------------------------------
(* RouterBuilder::bind as a compiler of specification strings: two strings *)
(* are registered one after the other and both resolvers are then asked    *)
(* about one route.                                                        *)

\* specification strings over the characters "/", "f" and ":"
SpecStrings == SeqsUpTo({"/", "f", ":"}, MaxStrLen)

InitCompile ==
    /\ phase = "build"
    /\ binds = << >>
    /\ resolvers = << >>
    /\ request = << >>
    /\ consulted = << >>
    /\ invoked = << >>
    /\ result = NotHandled
    /\ sr = RootResolver
    /\ \E left \in SpecStrings, right \in SpecStrings :
           params = [left |-> left, right |-> right, called |-> FALSE]
    /\ outs = NoOuts
    /\ NoServer
    /\ NoView

compile_left ==
    /\ Len(resolvers) = 0
    /\ binds' = Append(binds, [path |-> params.left, handler |-> "page"])
    /\ resolvers' = RouterBuilder_bind(resolvers, params.left, "page")
    /\ UNCHANGED <<phase, request, consulted, invoked, result, resolverVars,
                   serverVars, viewVars>>

compile_right ==
    /\ Len(resolvers) = 1
    /\ binds' = Append(binds, [path |-> params.right, handler |-> "page"])
    /\ resolvers' = RouterBuilder_bind(resolvers, params.right, "page")
    /\ UNCHANGED <<phase, request, consulted, invoked, result, resolverVars,
                   serverVars, viewVars>>

\* both compiled resolvers asked about the same route
compile_resolve(route) ==
    /\ Len(resolvers) = 2
    /\ ~params.called
    /\ params' = [params EXCEPT !.called = TRUE]
    /\ request' = route
    /\ outs' = [left |-> routing_resolve(resolvers[1].resolver, route),
                right |-> routing_resolve(resolvers[2].resolver, route)]
    /\ UNCHANGED <<phase, binds, resolvers, consulted, invoked, result, sr,
                   serverVars, viewVars>>

NextCompile ==
    \/ compile_left
    \/ compile_right
    \/ \E route \in BuilderPaths : compile_resolve(route)

SpecCompile == InitCompile /\ [][NextCompile]_vars

-----------------------------------------------------------------------------
(* server.rs: ServerBuilder collects the pages in a HashMap keyed by the    *)
(* specification string, start turns the map into the list of the Server,  *)
(* and every request is answered by Server::handle under a read lock.      *)
(* The StandardRouter that compiles the specifications is the Compile and  *)
(* Match of section 4.1 of the specification.                              *)

RECURSIVE trim_left_matches(_, _)
trim_left_matches(s, c) ==
    IF starts_with(s, c) THEN trim_left_matches(Tail(s), c) ELSE s

RECURSIVE trim_right_matches(_, _)
trim_right_matches(s, c) ==
    IF ends_with(s, c)
    THEN trim_right_matches(SubSeq(s, 1, Len(s) - 1), c)
    ELSE s

\* [&str]::join
RECURSIVE join(_, _)
join(pieces, sep) ==
    IF Len(pieces) = 0 THEN EmptyStr
    ELSE IF Len(pieces) = 1 THEN pieces[1]
    ELSE pieces[1] \o sep \o join(Tail(pieces), sep)

\* the key of the 404 map
PathKey == <<"p", "a", "t", "h">>

\* the handler of ServerBuilder::new: the page that reads "Page Not Found"
DefaultPage == "default"

PageHandlers == Handlers \cup {DefaultPage}

\* a PageHandler called with a RouteMap
PageHandler_call(handler, map) ==
    IF handler = DefaultPage
    THEN [ok |-> TRUE, handler |-> handler, data |-> EmptyMap]
    ELSE handler_handle(handler, map)

\* ServerBuilder::on_page storing the specification as it was given
ServerBuilder_on_page_untrimmed(map, path, handler) ==
    insert(map, path, handler)

\* ServerBuilder::on_page
ServerBuilder_on_page(map, path, handler) ==
    insert(map, trim_right_matches(trim_left_matches(path, "/"), "/"), handler)

\* Router::resolver of the StandardRouter: Compile
StandardRouter_resolver(spec) == routing_new(remove_empty(split(spec)))

\* RouteResolver::resolve: Match
RouteResolver_resolve(self, route) == routing_resolve(self, route)

\* HashMap::into_iter: the keys in an order the program does not choose
HashMap_into_iter(map) ==
    { order \in [1..Cardinality(DOMAIN map) -> DOMAIN map] :
          \A i, j \in DOMAIN order : i # j => order[i] # order[j] }

\* Server::new, for one order of iteration of the HashMap
Server_new(map, order) ==
    [k \in DOMAIN order |->
        [resolver |-> StandardRouter_resolver(order[k]),
         handler |-> map[order[k]]]]

NoResponse == [kind |-> "NotHandled", status |-> "none", body |-> NoValue]

ResponsePanic == [kind |-> "Panic", status |-> "none", body |-> NoValue]

\* Ok(Response::with((status, body)))
Response_with(status, body) == [kind |-> "Ok", status |-> status, body |-> body]

\* the match on the result of a handler that answers InternalServerError
\* with the status of success
Server_respond_hide_error(value, success) == Response_with(success, value)

\* the match on the result of a handler, in both places of Server::handle
Server_respond(value, success) ==
    IF value.ok
    THEN Response_with(success, value)
    ELSE Response_with("InternalServerError", value)

\* the end of Server::handle answering Ok instead of NotFound
Server_handle_miss_ok(not_found, route, seen) ==
    LET map == insert(EmptyMap, PathKey, join(route, <<"/">>))
    IN  [consulted |-> seen,
         invoked |-> <<[entry |-> 0, data |-> map]>>,
         result |-> Server_respond(PageHandler_call(not_found, map), "Ok")]

\* the end of Server::handle: no page accepted the route
Server_handle_miss(not_found, route, seen) ==
    LET map == insert(EmptyMap, PathKey, join(route, <<"/">>))
    IN  [consulted |-> seen,
         invoked |-> <<[entry |-> 0, data |-> map]>>,
         result |-> Server_respond(PageHandler_call(not_found, map),
                        "NotFound")]

\* the for loop of Server::handle from page k (counted from 1) on
RECURSIVE Server_handle_loop(_, _, _, _, _)
Server_handle_loop(entries, not_found, route, k, seen) ==
    IF k > Len(entries)
    THEN Server_handle_miss(not_found, route, seen)
    ELSE LET data == RouteResolver_resolve(entries[k].resolver, route)
             now == Append(seen, [entry |-> k, data |-> data])
         IN  CASE data.kind = "None" ->
                    Server_handle_loop(entries, not_found, route, k + 1, now)
               [] data.kind = "Panic" ->
                    [consulted |-> now, invoked |-> << >>, result |-> ResponsePanic]
               [] data.kind = "Some" ->
                    [consulted |-> now,
                     invoked |-> <<[entry |-> k, data |-> data.map]>>,
                     result |-> Server_respond(
                         PageHandler_call(entries[k].handler, data.map), "Ok")]

Server_handle(entries, not_found, route) ==
    Server_handle_loop(entries, not_found, route, 1, << >>)

\* the paths given to on_page: "/f", "f/", ":a", ":a/:a"
ServerPaths ==
    { <<"/", "f">>, <<"f", "/">>, <<":", "a">>, <<":", "a", "/", ":", "a">> }

InitServer ==
    /\ phase = "build"
    /\ binds = << >>
    /\ resolvers = << >>
    /\ request = << >>
    /\ consulted = << >>
    /\ invoked = << >>
    /\ result = NoResponse
    /\ NoResolver
    /\ pages = << >>
    /\ page_not_found = DefaultPage
    /\ threads = << >>
    /\ lock = NoLock
    /\ NoView

on_page(path, handler) ==
    /\ phase = "build"
    /\ Len(binds) < MaxEntries
    /\ binds' = Append(binds, [path |-> path, handler |-> handler])
    /\ pages' = ServerBuilder_on_page(pages, path, handler)
    /\ UNCHANGED <<phase, resolvers, request, consulted, invoked, result,
                   resolverVars, page_not_found, threads, lock, viewVars>>

on_page_not_found(handler) ==
    /\ phase = "build"
    /\ page_not_found' = handler
    /\ UNCHANGED <<phase, binds, resolvers, request, consulted, invoked, result,
                   resolverVars, pages, threads, lock, viewVars>>

\* ServerBuilder::start, up to the server listening
start ==
    /\ phase = "build"
    /\ phase' = "serve"
    /\ \E order \in HashMap_into_iter(pages) :
           resolvers' = Server_new(pages, order)
    /\ UNCHANGED <<binds, request, consulted, invoked, result, resolverVars,
                   serverVars, viewVars>>

\* the closure of start called by the worker for one request
call(path) ==
    /\ phase = "serve"
    /\ result = NoResponse
    /\ LET h == Server_handle(resolvers, page_not_found, path)
       IN  /\ request' = path
           /\ consulted' = h.consulted
           /\ invoked' = h.invoked
           /\ result' = h.result
    /\ UNCHANGED <<phase, binds, resolvers, resolverVars, serverVars, viewVars>>

NextServer ==
    \/ \E path \in ServerPaths, handler \in Handlers : on_page(path, handler)
    \/ \E handler \in Handlers : on_page_not_found(handler)
    \/ start
    \/ \E path \in RequestPaths : call(path)

SpecServer == InitServer /\ [][NextServer]_vars

-----------------------------------------------------------------------------
(* server.rs with its worker threads: every request runs the closure of    *)
(* start on a thread of its own: framework.read(), then Server::handle one *)
(* page after the other, then the guard is dropped.                        *)

Workers == {"w1", "w2"}

\* the routes requested by the workers: f, g, f/g
WorkerPaths == { <<<<"f">>>>, <<<<"g">>>>, <<<<"f">>, <<"g">>>> }

\* RwLock::write: granted when nobody holds the lock
RwLock_write(l) ==
    [granted |-> ~l.writer /\ l.readers = 0,
     lock |-> [l EXCEPT !.writer = TRUE],
     guard |-> "write"]

\* RwLock::read: granted when no writer holds the lock
RwLock_read(l) ==
    [granted |-> ~l.writer,
     lock |-> [l EXCEPT !.readers = @ + 1],
     guard |-> "read"]

\* drop of a RwLockReadGuard or RwLockWriteGuard
RwLock_drop(l, guard) ==
    IF guard = "write"
    THEN [l EXCEPT !.writer = FALSE]
    ELSE [l EXCEPT !.readers = @ - 1]

IdleWorker ==
    [pc |-> "idle", path |-> << >>, k |-> 0, guard |-> "none",
     response |-> NoResponse]

InitThreads ==
    /\ phase = "build"
    /\ binds = << >>
    /\ resolvers = << >>
    /\ request = << >>
    /\ consulted = << >>
    /\ invoked = << >>
    /\ result = NoResponse
    /\ NoResolver
    /\ pages = << >>
    /\ page_not_found = DefaultPage
    /\ threads = [w \in Workers |-> IdleWorker]
    /\ lock = NoLock
    /\ NoView

\* framework.read().unwrap() for a new request
worker_read(w, path) ==
    /\ phase = "serve"
    /\ threads[w].pc = "idle"
    /\ LET got == RwLock_read(lock)
       IN  /\ got.granted
           /\ lock' = got.lock
           /\ threads' = [threads EXCEPT ![w] =
                  [pc |-> "handle", path |-> path, k |-> 1,
                   guard |-> got.guard, response |-> NoResponse]]
    /\ UNCHANGED <<routerVars, resolverVars, pages, page_not_found, viewVars>>

\* one turn of the loop of Server::handle, or its end
worker_handle(w) ==
    /\ threads[w].pc = "handle"
    /\ LET me == threads[w]
           rest == Server_handle_miss(page_not_found, me.path, << >>).result
           data == RouteResolver_resolve(resolvers[me.k].resolver, me.path)
       IN  threads' = [threads EXCEPT ![w] =
               IF me.k > Len(resolvers)
               THEN [me EXCEPT !.pc = "responded", !.response = rest]
               ELSE CASE data.kind = "None" -> [me EXCEPT !.k = @ + 1]
                      [] data.kind = "Panic" ->
                           [me EXCEPT !.pc = "responded",
                                      !.response = ResponsePanic]
                      [] data.kind = "Some" ->
                           [me EXCEPT !.pc = "responded",
                                      !.response = Server_respond(
                                          PageHandler_call(
                                              resolvers[me.k].handler,
                                              data.map), "Ok")]]
    /\ UNCHANGED <<routerVars, resolverVars, pages, page_not_found, lock,
                   viewVars>>

\* the end of the closure: the guard is dropped, the thread is free again
worker_drop(w) ==
    /\ threads[w].pc = "responded"
    /\ lock' = RwLock_drop(lock, threads[w].guard)
    /\ threads' = [threads EXCEPT ![w] = IdleWorker]
    /\ UNCHANGED <<routerVars, resolverVars, pages, page_not_found, viewVars>>

NextThreads ==
    \/ \E path \in ServerPaths, handler \in Handlers : on_page(path, handler)
    \/ \E handler \in Handlers : on_page_not_found(handler)
    \/ start
    \/ \E w \in Workers, path \in WorkerPaths : worker_read(w, path)
    \/ \E w \in Workers : worker_handle(w)
    \/ \E w \in Workers : worker_drop(w)

SpecThreads == InitThreads /\ [][NextThreads]_vars

-----------------------------------------------------------------------------
(* Views and decorators: decorator.rs, the Screaming decorator of          *)
(* examples/decorators.rs, and the View they decorate.  View::raw and      *)
(* View::apply are the Construct and Apply of section 4.3 of the           *)
(* specification.                                                          *)

\* View::new giving the MIME type text/html
View_new_html(content) == [content |-> content, mime |-> "text/html"]

\* View::new: the content with the MIME type text/plain
View_new(content) == [content |-> content, mime |-> "text/plain"]

\* View::raw
View_raw(content) == View_new(content)

\* the delimiter of Surround::from
Delimiter == <<"{", "{", "m", "i", "d", "d", "l", "e", "}", "}">>

\* pat occurs in s at position p
matches_at(s, pat, p) ==
    /\ p + Len(pat) - 1 <= Len(s)
    /\ SubSeq(s, p, p + Len(pat) - 1) = pat

\* str::split(pat): the pieces between the occurrences of pat, from the left
RECURSIVE split_on(_, _)
split_on(s, pat) ==
    IF \A p \in 1..Len(s) : ~matches_at(s, pat, p)
    THEN <<s>>
    ELSE LET p == CHOOSE q \in 1..Len(s) :
                      /\ matches_at(s, pat, q)
                      /\ \A r \in 1..(q - 1) : ~matches_at(s, pat, r)
         IN  <<SubSeq(s, 1, p - 1)>>
                 \o split_on(SubSeq(s, p + Len(pat), Len(s)), pat)

\* Iterator::take
take(items, n) == SubSeq(items, 1, IF Len(items) < n THEN Len(items) ELSE n)

\* Vec::pop: the last item if there is one, and the items left
Vec_pop(vec) ==
    IF Len(vec) = 0
    THEN [some |-> FALSE, value |-> EmptyStr, vec |-> vec]
    ELSE [some |-> TRUE, value |-> vec[Len(vec)],
          vec |-> SubSeq(vec, 1, Len(vec) - 1)]

\* Option::unwrap_or
unwrap_or(popped, default) == IF popped.some THEN popped.value ELSE default

Surround_new(pre, post) == [kind |-> "Surround", pre |-> pre, post |-> post]

\* Surround::from keeping everything after the first delimiter as suffix
Surround_from_rest(input) ==
    LET pieces == split_on(input, Delimiter)
    IN  IF Len(pieces) = 1
        THEN Surround_new(EmptyStr, input)
        ELSE Surround_new(pieces[1],
                 SubSeq(input, Len(pieces[1]) + Len(Delimiter) + 1, Len(input)))

Surround_from(input) ==
    LET vec == take(split_on(input, Delimiter), 2)
        first == Vec_pop(vec)
        second == Vec_pop(first.vec)
        post == unwrap_or(first, EmptyStr)
        pre == unwrap_or(second, EmptyStr)
    IN  Surround_new(pre, post)

\* Surround::decorate putting the suffix first and the prefix last
Surround_decorate_swapped(self, v) ==
    [content |-> self.post \o v.content \o self.pre, mime |-> v.mime]

Surround_decorate(self, v) ==
    [content |-> self.pre \o v.content \o self.post, mime |-> v.mime]

Markdown == [kind |-> "Markdown", pre |-> EmptyStr, post |-> EmptyStr]

Letters == {"b", "f", "z", "B", "F", "Z"}

IsWord(s) == Len(s) > 0 /\ \A p \in 1..Len(s) : s[p] \in Letters

\* a word between two asterisks
IsEmphasis(s) ==
    /\ Len(s) >= 3
    /\ s[1] = "*"
    /\ s[Len(s)] = "*"
    /\ IsWord(SubSeq(s, 2, Len(s) - 1))

\* "# " and a word
IsHeading(s) ==
    /\ Len(s) >= 3
    /\ s[1] = "#"
    /\ s[2] = " "
    /\ IsWord(SubSeq(s, 3, Len(s)))

\* the markdown sources whose rendering is modelled
IsMarkdownText(s) == IsWord(s) \/ IsEmphasis(s) \/ IsHeading(s)

\* html::push_html(output, Parser::new(content)) on those sources:
\* a heading, a paragraph of emphasised text, or a paragraph
push_html(s) ==
    IF IsHeading(s)
    THEN <<"<", "h", "1", ">">> \o SubSeq(s, 3, Len(s))
             \o <<"<", "/", "h", "1", ">", "\n">>
    ELSE IF IsEmphasis(s)
    THEN <<"<", "p", ">", "<", "e", "m", ">">> \o SubSeq(s, 2, Len(s) - 1)
             \o <<"<", "/", "e", "m", ">", "<", "/", "p", ">", "\n">>
    ELSE IF IsWord(s)
    THEN <<"<", "p", ">">> \o s \o <<"<", "/", "p", ">", "\n">>
    ELSE s

\* Markdown::decorate leaving the source as it is
Markdown_decorate_unrendered(v) == [content |-> v.content, mime |-> "text/html"]

Markdown_decorate(v) == [content |-> push_html(v.content), mime |-> "text/html"]

Screaming == [kind |-> "Screaming", pre |-> EmptyStr, post |-> EmptyStr]

\* char::to_uppercase on the letters that occur
UpperOf ==
    [c \in {"b", "f", "z", "p", "e", "m", "h"} |->
        CASE c = "b" -> "B" [] c = "f" -> "F" [] c = "z" -> "Z"
          [] c = "p" -> "P" [] c = "e" -> "E" [] c = "m" -> "M"
          [] c = "h" -> "H"]

\* str::to_uppercase
to_uppercase(s) ==
    [p \in 1..Len(s) |-> IF s[p] \in DOMAIN UpperOf THEN UpperOf[s[p]] ELSE s[p]]

Screaming_decorate(v) == [content |-> to_uppercase(v.content), mime |-> v.mime]

\* a decorator that hands back the view it was given
Decorator_decorate_nothing(d, v) == v

\* Decorator::decorate of the decorator d
Decorator_decorate(d, v) ==
    CASE d.kind = "Surround" -> Surround_decorate(d, v)
      [] d.kind = "Markdown" -> Markdown_decorate(v)
      [] d.kind = "Screaming" -> Screaming_decorate(v)

\* View::apply
View_apply(v, d) == Decorator_decorate(d, v)

\* the contents of the views a handler starts from: "b", "*b*", "# b"
Contents == { <<"b">>, <<"*", "b", "*">>, <<"#", " ", "b">> }

\* the prefixes and suffixes given to Surround::new: "", "*", "*f", "z*"
Affixes == { EmptyStr, <<"*">>, <<"*", "f">>, <<"z", "*">> }

\* a decorator can be applied: Markdown only to the modelled sources
Applicable(d) ==
    /\ Len(applied) < MaxChain
    /\ d.kind = "Markdown" => IsMarkdownText(the_view.content)

InitDecorate ==
    /\ phase = "build"
    /\ binds = << >>
    /\ resolvers = << >>
    /\ request = << >>
    /\ consulted = << >>
    /\ invoked = << >>
    /\ result = NotHandled
    /\ NoResolver
    /\ NoServer
    /\ \E content \in Contents : the_view = View_raw(content)
    /\ applied = << >>

\* view.apply(&d): the view is replaced by the decorated one
apply(d) ==
    /\ Applicable(d)
    /\ the_view' = View_apply(the_view, d)
    /\ applied' = Append(applied,
                      [decorator |-> d, input |-> the_view,
                       output |-> View_apply(the_view, d)])
    /\ UNCHANGED <<routerVars, resolverVars, serverVars>>

apply_surround(pre, post) == apply(Surround_new(pre, post))

apply_markdown == apply(Markdown)

apply_screaming == apply(Screaming)

NextDecorate ==
    \/ \E pre \in Affixes, post \in Affixes : apply_surround(pre, post)
    \/ apply_markdown
    \/ apply_screaming

SpecDecorate == InitDecorate /\ [][NextDecorate]_vars

\* the pieces templates are made of: "f", "z", the delimiter, and the
\* delimiter without its last brace
Chunks == { <<"f">>, <<"z">>, Delimiter, SubSeq(Delimiter, 1, Len(Delimiter) - 1) }

RECURSIVE Flatten(_)
Flatten(chunks) ==
    IF Len(chunks) = 0 THEN EmptyStr ELSE Head(chunks) \o Flatten(Tail(chunks))

Templates == { Flatten(chunks) : chunks \in SeqsUpTo(Chunks, MaxChunks) }

InitSurround ==
    /\ phase = "build"
    /\ binds = << >>
    /\ resolvers = << >>
    /\ request = << >>
    /\ consulted = << >>
    /\ invoked = << >>
    /\ result = NotHandled
    /\ sr = RootResolver
    /\ \E template \in Templates :
           params = [template |-> template, called |-> FALSE]
    /\ outs = NoOuts
    /\ NoServer
    /\ \E content \in Contents : the_view = View_raw(content)
    /\ applied = << >>

\* view.apply(&Surround::from(template))
apply_from ==
    /\ ~params.called
    /\ params' = [params EXCEPT !.called = TRUE]
    /\ LET d == Surround_from(params.template)
       IN  /\ the_view' = View_apply(the_view, d)
           /\ applied' = Append(applied,
                             [decorator |-> d, input |-> the_view,
                              output |-> View_apply(the_view, d)])
    /\ UNCHANGED <<routerVars, sr, outs, serverVars>>

NextSurround == apply_from

SpecSurround == InitSurround /\ [][NextSurround]_vars

-----------------------------------------------------------------------------
(* view.rs: a View is made from a string or from a file, its MIME type can *)
(* be set, a decorator turns it into another View, and it ends as the pair *)
(* (content, mime).                                                        *)

\* str::to_owned: the same characters in a String of their own
to_owned(content) == [p \in 1..Len(content) |-> content[p]]

\* From<&'static str> for View
View_from_str(content) == View_new(to_owned(content))

\* From<String> for View
View_from_String(content) == View_new(content)

\* View::from: Ok(content.into())
View_from(content, type) ==
    [ok |-> TRUE,
     view |-> IF type = "str" THEN View_from_str(content)
              ELSE View_from_String(content)]

\* View::mime leaving the MIME type as it was
View_mime_kept(self, mime) == self

\* View::mime: the MIME type is replaced in place
View_mime(self, mime) == [self EXCEPT !.mime = mime]

\* Into<(String, Mime)> for View
View_into(self) == <<self.content, self.mime>>

\* the files on disk: a.html, a.HTM, a.txt and a exist
Files ==
    (<<"a", ".", "h", "t", "m", "l">> :> <<"b">>)
    @@ (<<"a", ".", "H", "T", "M">> :> <<"*", "b", "*">>)
    @@ (<<"a", ".", "t", "x", "t">> :> <<"b", "b">>)
    @@ (<<"a">> :> <<"*">>)

\* the paths given to View::path: the files and the missing x.html
ViewPaths == DOMAIN Files \cup { <<"x", ".", "h", "t", "m", "l">> }

\* Path::extension: what follows the last dot, unless the name begins with it
extension(path) ==
    LET dots == { p \in 1..Len(path) : path[p] = "." }
        last == CHOOSE p \in dots : \A q \in dots : q <= p
    IN  IF dots = {} \/ last = 1
        THEN [some |-> FALSE, value |-> EmptyStr]
        ELSE [some |-> TRUE, value |-> SubSeq(path, last + 1, Len(path))]

LowerOf == ("H" :> "h") @@ ("T" :> "t") @@ ("M" :> "m") @@ ("L" :> "l")

\* str::to_ascii_lowercase
to_ascii_lowercase(s) ==
    [p \in 1..Len(s) |-> IF s[p] \in DOMAIN LowerOf THEN LowerOf[s[p]] ELSE s[p]]

\* View::path: the file as a view, text/html for the extensions html and htm
View_path(path) ==
    IF path \notin DOMAIN Files
    THEN [ok |-> FALSE, view |-> View_new(EmptyStr)]
    ELSE LET fresh == View_from_String(Files[path])
             ext == extension(path)
             lower == to_ascii_lowercase(ext.value)
         IN  [ok |-> TRUE,
              view |-> IF ext.some /\ lower \in { <<"h", "t", "m", "l">>,
                                                 <<"h", "t", "m">> }
                       THEN View_mime(fresh, "text/html")
                       ELSE fresh]

\* the content strings views are made from
ViewContents == SeqsUpTo({"b", "*"}, MaxStrLen)

Mimes == {"text/plain", "text/html"}

NoSource == [made |-> "nothing", content |-> EmptyStr, called |-> FALSE]

NoTuple == <<EmptyStr, "none">>

InitView ==
    /\ phase = "build"
    /\ binds = << >>
    /\ resolvers = << >>
    /\ request = << >>
    /\ consulted = << >>
    /\ invoked = << >>
    /\ result = NotHandled
    /\ sr = RootResolver
    /\ params = NoSource
    /\ outs = NoTuple
    /\ NoServer
    /\ NoView

\* let view = View::from(content).unwrap()
view_from(content, type) ==
    /\ phase = "build"
    /\ ~params.called
    /\ params' = [made |-> "from", content |-> content, called |-> TRUE]
    /\ the_view' = View_from(content, type).view
    /\ phase' = "view"
    /\ UNCHANGED <<binds, resolvers, request, consulted, invoked, result, sr,
                   outs, serverVars, applied>>

\* View::path(path), unwrapped when it is Ok
view_path(path) ==
    /\ phase = "build"
    /\ ~params.called
    /\ params' = [made |-> "path", content |-> path, called |-> TRUE]
    /\ LET r == View_path(path)
       IN  IF r.ok
           THEN the_view' = r.view /\ phase' = "view"
           ELSE UNCHANGED <<the_view, phase>>
    /\ UNCHANGED <<binds, resolvers, request, consulted, invoked, result, sr,
                   outs, serverVars, applied>>

\* view.mime(mime) on the view in hand
view_mime(mime) ==
    /\ phase = "view"
    /\ Len(applied) < MaxChain
    /\ the_view' = View_mime(the_view, mime)
    /\ applied' = Append(applied,
                      [op |-> "mime", arg |-> mime, input |-> the_view,
                       output |-> View_mime(the_view, mime)])
    /\ UNCHANGED <<routerVars, resolverVars, serverVars>>

\* decorator.decorate(view): the view is moved into the decorator and the
\* one it returns takes its place
view_decorate(d) ==
    /\ phase = "view"
    /\ Applicable(d)
    /\ the_view' = Decorator_decorate(d, the_view)
    /\ applied' = Append(applied,
                      [op |-> "decorate", arg |-> d.kind, input |-> the_view,
                       output |-> Decorator_decorate(d, the_view)])
    /\ UNCHANGED <<routerVars, resolverVars, serverVars>>

\* let (content, mime) = view.into()
view_into ==
    /\ phase = "view"
    /\ outs' = View_into(the_view)
    /\ phase' = "consumed"
    /\ UNCHANGED <<binds, resolvers, request, consulted, invoked, result, sr,
                   params, serverVars, viewVars>>

NextView ==
    \/ \E content \in ViewContents, type \in {"str", "String"} :
           view_from(content, type)
    \/ \E path \in ViewPaths : view_path(path)
    \/ \E mime \in Mimes : view_mime(mime)
    \/ \E d \in {Markdown, Surround_new(<<"*">>, <<"*">>)} : view_decorate(d)
    \/ view_into

SpecView == InitView /\ [][NextView]_vars

-----------------------------------------------------------------------------
(* examples/file_browser.rs: the FileRouter compiles a specification of   *)
(* path literals that may end in one '*', and the FileResolver matches a   *)
(* route against it and hands the whole path to the page as "file".        *)

\* the key of the RouteMap of a FileResolver
FileKey == <<"f", "i", "l", "e">>

\* the token "*"
StarToken == <<"*">>

\* Iterator::skip_while(|it| it.as_str() != "*")
RECURSIVE skip_while_not_star(_)
skip_while_not_star(tokens) ==
    IF tokens = << >> \/ Head(tokens) = StarToken
    THEN tokens
    ELSE skip_while_not_star(Tail(tokens))

\* Iterator::skip(n)
skip(tokens, n) ==
    IF n >= Len(tokens) THEN << >> ELSE SubSeq(tokens, n + 1, Len(tokens))

\* FileResolver::new
FileResolver_new(tokens) == [path |-> tokens]

\* Router::resolver of the FileRouter without the test for a trailing literal
FileRouter_resolver_unchecked(route_spec) ==
    [ok |-> TRUE, resolver |-> FileResolver_new(remove_empty(split(route_spec)))]

\* Router::resolver of the FileRouter; ok is FALSE when it panics
FileRouter_resolver(route_spec) ==
    LET tokens == remove_empty(split(route_spec))
        trail == skip(skip_while_not_star(tokens), 1)
    IN  IF Len(trail) > 0
        THEN [ok |-> FALSE, resolver |-> FileResolver_new(<< >>)]
        ELSE [ok |-> TRUE, resolver |-> FileResolver_new(tokens)]

\* the for loop of FileResolver::resolve from index i (counted from 0) on
RECURSIVE FileResolver_resolve_loop(_, _, _, _)
FileResolver_resolve_loop(self, route, i, map) ==
    IF i >= Len(route)
    THEN ResolveSome(map, <<FileKey>>)
    ELSE IF i >= Len(self.path)
    THEN ResolveNone
    ELSE LET actual == route[i + 1]
             spec == self.path[i + 1]
         IN  IF spec = StarToken
             THEN ResolveSome(map, <<FileKey>>)
             ELSE IF str_ne(spec, actual)
             THEN ResolveNone
             ELSE FileResolver_resolve_loop(self, route, i + 1, map)

\* FileResolver::resolve putting only the first segment into the map
FileResolver_resolve_first(self, route) ==
    LET full_path == IF route = << >> THEN EmptyStr ELSE route[1]
        map == insert(EmptyMap, FileKey, full_path)
    IN  FileResolver_resolve_loop(self, route, 0, map)

\* FileResolver::resolve
FileResolver_resolve(self, route) ==
    LET full_path == join(route, <<"/">>)
        map == insert(EmptyMap, FileKey, full_path)
    IN  FileResolver_resolve_loop(self, route, 0, map)

\* the specifications given to the FileRouter: "/f/*", "f*", "*/f", ...
FileSpecs == SeqsUpTo({"/", "f", "*"}, MaxStrLen)

\* the routes of the requests: url.path() of up to MaxRawLen + 1 segments
FileRoutes == SeqsUpTo(Segments, MaxRawLen + 1)

NoFileSpec == [spec |-> EmptyStr, called |-> FALSE]

InitFile ==
    /\ phase = "router"
    /\ binds = << >>
    /\ resolvers = << >>
    /\ request = << >>
    /\ consulted = << >>
    /\ invoked = << >>
    /\ result = NotHandled
    /\ sr = FileResolver_new(<< >>)
    /\ params = NoFileSpec
    /\ outs = ResolveNone
    /\ NoServer
    /\ NoView

\* Server::new asking the FileRouter for the resolver of one page
file_resolver(route_spec) ==
    /\ phase = "router"
    /\ params' = [spec |-> route_spec, called |-> FALSE]
    /\ LET r == FileRouter_resolver(route_spec)
       IN  IF r.ok
           THEN phase' = "built" /\ sr' = r.resolver
           ELSE phase' = "aborted" /\ UNCHANGED sr
    /\ UNCHANGED <<binds, resolvers, request, consulted, invoked, result, outs,
                   serverVars, viewVars>>

\* Server::handle asking the resolver about the route of a request
file_resolve(route) ==
    /\ phase = "built"
    /\ request' = route
    /\ params' = [params EXCEPT !.called = TRUE]
    /\ outs' = FileResolver_resolve(sr, route)
    /\ UNCHANGED <<phase, binds, resolvers, consulted, invoked, result, sr,
                   serverVars, viewVars>>

NextFile ==
    \/ \E route_spec \in FileSpecs : file_resolver(route_spec)
    \/ \E route \in FileRoutes : file_resolve(route)

SpecFile == InitFile /\ [][NextFile]_vars

-----------------------------------------------------------------------------
(* The loops one iteration at a time: the while loop of resolve in          *)
(* routing.rs and in resolution.rs, and the for loop of Router::handle.    *)
(* A frame holds the local variables of one call of resolve; iterations    *)
(* counts the executions of the loop body.                                 *)

NotCalled ==
    [kind |-> "NotCalled", map |-> EmptyMap, writes |-> << >>,
     i |-> 0, j |-> 0, iterations |-> 0]

\* let mut map = RouteMap::new(); let mut i = 0; let mut j = 0;
Running == [NotCalled EXCEPT !.kind = "Running"]

\* what a finished call returned
FrameOutcome(f) ==
    CASE f.kind = "Some" -> ResolveSome(f.map, f.writes)
      [] f.kind = "Panic" -> ResolvePanic
      [] OTHER -> ResolveNone

\* routing.rs resolve, one iteration, with an absent Optional leaving j alone
routing_resolve_iteration_j_kept(self, route, f) ==
    IF f.i >= Len(self)
    THEN [f EXCEPT !.kind = IF f.j < Len(route) THEN "None" ELSE "Some"]
    ELSE LET expected == self[f.i + 1]
             present == f.j < Len(route)
             actual == IF present THEN route[f.j + 1] ELSE EmptyStr
             g == [f EXCEPT !.iterations = @ + 1]
         IN  CASE expected.kind = "Literal" ->
                    IF ~present THEN [g EXCEPT !.kind = "None"]
                    ELSE IF str_ne(actual, expected.text)
                    THEN [g EXCEPT !.kind = "None"]
                    ELSE [g EXCEPT !.i = @ + 1, !.j = @ + 1]
               [] expected.kind = "Variable" ->
                    IF ~present THEN [g EXCEPT !.kind = "None"]
                    ELSE IF insert_returns_some(f.map, expected.text)
                    THEN [g EXCEPT !.kind = "Panic"]
                    ELSE [g EXCEPT !.map = insert(@, expected.text, actual),
                                   !.writes = Append(@, expected.text),
                                   !.i = @ + 1, !.j = @ + 1]
               [] expected.kind = "Optional" ->
                    LET text == IF present THEN actual ELSE EmptyStr
                    IN  IF insert_returns_some(f.map, expected.text)
                        THEN [g EXCEPT !.kind = "Panic"]
                        ELSE [g EXCEPT !.map = insert(@, expected.text, text),
                                       !.writes = Append(@, expected.text),
                                       !.i = @ + 1,
                                       !.j = IF present THEN @ + 1 ELSE @]

\* routing.rs resolve: the test of the while loop, and then either one
\* execution of its body or the check after the loop
routing_resolve_iteration(self, route, f) ==
    IF f.i >= Len(self)
    THEN [f EXCEPT !.kind = IF f.j < Len(route) THEN "None" ELSE "Some"]
    ELSE LET expected == self[f.i + 1]
             present == f.j < Len(route)
             actual == IF present THEN route[f.j + 1] ELSE EmptyStr
             g == [f EXCEPT !.iterations = @ + 1]
         IN  CASE expected.kind = "Literal" ->
                    IF ~present THEN [g EXCEPT !.kind = "None"]
                    ELSE IF str_ne(actual, expected.text)
                    THEN [g EXCEPT !.kind = "None"]
                    ELSE [g EXCEPT !.i = @ + 1, !.j = @ + 1]
               [] expected.kind = "Variable" ->
                    IF ~present THEN [g EXCEPT !.kind = "None"]
                    ELSE IF insert_returns_some(f.map, expected.text)
                    THEN [g EXCEPT !.kind = "Panic"]
                    ELSE [g EXCEPT !.map = insert(@, expected.text, actual),
                                   !.writes = Append(@, expected.text),
                                   !.i = @ + 1, !.j = @ + 1]
               [] expected.kind = "Optional" ->
                    LET text == IF present THEN actual ELSE EmptyStr
                    IN  IF insert_returns_some(f.map, expected.text)
                        THEN [g EXCEPT !.kind = "Panic"]
                        ELSE [g EXCEPT !.map = insert(@, expected.text, text),
                                       !.writes = Append(@, expected.text),
                                       !.i = @ + 1, !.j = @ + 1]

\* resolution.rs resolve, one iteration, with a panic where a Literal finds
\* no segment or another segment
resolution_resolve_iteration_strict(spec, route, f) ==
    IF f.i >= Len(spec)
    THEN [f EXCEPT !.kind = IF f.i < Len(route) THEN "None" ELSE "Some"]
    ELSE LET expected == spec[f.i + 1]
             present == f.i < Len(route)
             actual == IF present THEN route[f.i + 1] ELSE EmptyStr
             g == [f EXCEPT !.iterations = @ + 1]
         IN  CASE expected.kind = "Literal" ->
                    IF ~present THEN [g EXCEPT !.kind = "Panic"]
                    ELSE IF str_ne(actual, expected.text)
                    THEN [g EXCEPT !.kind = "Panic"]
                    ELSE [g EXCEPT !.i = @ + 1]
               [] expected.kind = "Variable" ->
                    IF ~present THEN [g EXCEPT !.kind = "None"]
                    ELSE IF insert_returns_some(f.map, expected.text)
                    THEN [g EXCEPT !.kind = "Panic"]
                    ELSE [g EXCEPT !.map = insert(@, expected.text, actual),
                                   !.writes = Append(@, expected.text),
                                   !.i = @ + 1]
               [] expected.kind = "Optional" ->
                    LET text == IF present THEN actual ELSE EmptyStr
                    IN  IF insert_returns_some(f.map, expected.text)
                        THEN [g EXCEPT !.kind = "Panic"]
                        ELSE [g EXCEPT !.map = insert(@, expected.text, text),
                                       !.writes = Append(@, expected.text),
                                       !.i = @ + 1]

\* resolution.rs resolve: the test of the while loop, and then either one
\* execution of its body or the check after the loop; there is no j
resolution_resolve_iteration(spec, route, f) ==
    IF f.i >= Len(spec)
    THEN [f EXCEPT !.kind = IF f.i < Len(route) THEN "None" ELSE "Some"]
    ELSE LET expected == spec[f.i + 1]
             present == f.i < Len(route)
             actual == IF present THEN route[f.i + 1] ELSE EmptyStr
             g == [f EXCEPT !.iterations = @ + 1]
         IN  CASE expected.kind = "Literal" ->
                    IF ~present THEN [g EXCEPT !.kind = "None"]
                    ELSE IF str_ne(actual, expected.text)
                    THEN [g EXCEPT !.kind = "None"]
                    ELSE [g EXCEPT !.i = @ + 1]
               [] expected.kind = "Variable" ->
                    IF ~present THEN [g EXCEPT !.kind = "None"]
                    ELSE IF insert_returns_some(f.map, expected.text)
                    THEN [g EXCEPT !.kind = "Panic"]
                    ELSE [g EXCEPT !.map = insert(@, expected.text, actual),
                                   !.writes = Append(@, expected.text),
                                   !.i = @ + 1]
               [] expected.kind = "Optional" ->
                    LET text == IF present THEN actual ELSE EmptyStr
                    IN  IF insert_returns_some(f.map, expected.text)
                        THEN [g EXCEPT !.kind = "Panic"]
                        ELSE [g EXCEPT !.map = insert(@, expected.text, text),
                                       !.writes = Append(@, expected.text),
                                       !.i = @ + 1]

\* the tokens of the resolvers whose loops are followed
StepTokens == { <<"f">>, <<":", "a">>, <<":", "a", "?">>, <<":", "b">> }

StepSpecs == SeqsUpTo(StepTokens, MaxSpecLen)

StepRoutes == SeqsUpTo({<<"f">>, <<"g">>}, MaxRawLen + 1)

\* the bind calls of a RouterBuilder, one after the other
RECURSIVE RouterBuilder_binds(_)
RouterBuilder_binds(calls) ==
    IF Len(calls) = 0 THEN << >>
    ELSE RouterBuilder_bind(
             RouterBuilder_binds(SubSeq(calls, 1, Len(calls) - 1)),
             calls[Len(calls)].path, calls[Len(calls)].handler)

\* either a Router about to handle a request, or a resolver of each
\* implementation about to be asked about a route
InitSteps ==
    /\ consulted = << >>
    /\ invoked = << >>
    /\ result = NotHandled
    /\ outs = [resolution |-> NotCalled, routing |-> NotCalled]
    /\ NoServer
    /\ NoView
    /\ \/ /\ phase = "serve"
          /\ binds \in SeqsUpTo([path : BindPaths, handler : {"page"}], MaxEntries)
          /\ resolvers = RouterBuilder_binds(binds)
          /\ request \in RequestPaths
          /\ sr = RootResolver
          /\ params = NoParams
       \/ /\ phase = "unit"
          /\ binds = << >>
          /\ resolvers = << >>
          /\ request = << >>
          /\ \E spec \in StepSpecs :
                 sr = [resolution |-> resolution_new("Get", spec),
                       routing |-> routing_new(spec)]
          /\ \E method \in Methods, route \in StepRoutes :
                 params = [method |-> method, route |-> route, called |-> FALSE]

\* routing.rs resolve is entered
routing_call ==
    /\ phase = "unit"
    /\ outs.routing.kind = "NotCalled"
    /\ outs' = [outs EXCEPT !.routing = Running]
    /\ params' = [params EXCEPT !.called = TRUE]
    /\ UNCHANGED <<sr, routerVars, serverVars, viewVars>>

routing_iteration ==
    /\ phase = "unit"
    /\ outs.routing.kind = "Running"
    /\ outs' = [outs EXCEPT !.routing =
                    routing_resolve_iteration(sr.routing, params.route, @)]
    /\ UNCHANGED <<sr, params, routerVars, serverVars, viewVars>>

\* resolution.rs resolve is entered: the methods are compared
resolution_call ==
    /\ phase = "unit"
    /\ outs.routing.kind \in {"None", "Some", "Panic"}
    /\ outs.resolution.kind = "NotCalled"
    /\ outs' = [outs EXCEPT !.resolution =
                    IF params.method # sr.resolution.method
                    THEN [Running EXCEPT !.kind = "None"]
                    ELSE Running]
    /\ UNCHANGED <<sr, params, routerVars, serverVars, viewVars>>

resolution_iteration ==
    /\ phase = "unit"
    /\ outs.resolution.kind = "Running"
    /\ outs' = [outs EXCEPT !.resolution =
                    resolution_resolve_iteration(sr.resolution.spec,
                                                 params.route, @)]
    /\ UNCHANGED <<sr, params, routerVars, serverVars, viewVars>>

\* Router::handle: the next entry of the for loop, or the None after it
handle_iteration ==
    /\ phase = "serve"
    /\ result = NotHandled
    /\ LET route == remove_empty(request)
           k == Len(consulted) + 1
       IN  IF k > Len(resolvers)
           THEN /\ result' = HandleNone
                /\ UNCHANGED <<consulted, invoked>>
           ELSE LET data == routing_resolve(resolvers[k].resolver, route)
                IN  /\ consulted' = Append(consulted, [entry |-> k, data |-> data])
                    /\ CASE data.kind = "None" -> UNCHANGED <<invoked, result>>
                         [] data.kind = "Panic" ->
                              /\ result' = HandlePanic
                              /\ UNCHANGED invoked
                         [] data.kind = "Some" ->
                              /\ invoked' = <<[entry |-> k, data |-> data.map]>>
                              /\ result' = HandleSome(
                                     handler_handle(resolvers[k].handler, data.map))
    /\ UNCHANGED <<phase, binds, resolvers, request, resolverVars, serverVars,
                   viewVars>>

NextSteps ==
    \/ routing_call
    \/ routing_iteration
    \/ resolution_call
    \/ resolution_iteration
    \/ handle_iteration

SpecSteps == InitSteps /\ [][NextSteps]_vars

\* a call that has begun is carried on: the thread of the request runs
SpecStepsFair == SpecSteps /\ WF_vars(NextSteps)

-----------------------------------------------------------------------------
(* Vocabulary of the properties of the router *)

Handled == result.kind # "NotHandled"

\* the request path without its empty segments
Route == SelectSeq(request, LAMBDA seg : seg # EmptyStr)

\* what the resolver compiled from the k-th bind call says about Route
BoundOutcome(k) ==
    routing_resolve(routing_new(remove_empty(split(binds[k].path))), Route)

Accepting == {k \in 1..Len(binds) : BoundOutcome(k).kind = "Some"}

Panicking == {k \in 1..Len(binds) : BoundOutcome(k).kind = "Panic"}

Least(S) == CHOOSE k \in S : \A e \in S : k <= e

BoundF == <<"/", "f">>

BoundVarA == <<"/", ":", "a">>

-----------------------------------------------------------------------------
(* C1: Router.handle tries the entries in the order in which bind           *)
(* registered them and stops at the first one whose resolver accepts the   *)
(* path: the resolvers consulted are entries 1, 2, ... without a gap, a    *)
(* handler that is invoked belongs to the accepting entry of lowest        *)
(* registration index, and no resolver after that entry is consulted (a   *)
(* resolver that panics ends the request with no handler invoked).         *)
(* With "/f" bound before "/:a", a request for /f invokes entry 1.         *)
C1_FirstMatchInRegistrationOrder ==
    Handled =>
        /\ Len(resolvers) = Len(binds)
        /\ \A n \in 1..Len(consulted) : consulted[n].entry = n
        /\ \A n \in 1..Len(invoked) :
               LET k == invoked[n].entry
               IN  /\ k \in Accepting
                   /\ \A e \in 1..(k - 1) : e \notin Accepting
                   /\ Len(consulted) = k
                   /\ result.kind = "Some"
                   /\ result.value.handler = binds[k].handler
        /\ ( /\ Len(binds) = 2
             /\ binds[1].path = BoundF
             /\ binds[2].path = BoundVarA
             /\ Route = << <<"f">> >> )
           => /\ invoked = << [entry |-> 1, data |-> EmptyMap] >>
              /\ Len(consulted) = 1

C1_Witness ==
    /\ Handled
    /\ Len(binds) = 2
    /\ binds[1].path = BoundF
    /\ binds[2].path = BoundVarA
    /\ binds[1].handler # binds[2].handler
    /\ Route = << <<"f">> >>
    /\ Accepting = {1, 2}
    /\ Len(invoked) = 1

C3_HandlerErrorForwarded ==
    ( /\ Handled
      /\ Accepting # {}
      /\ \A e \in Panicking : e > Least(Accepting)
      /\ binds[Least(Accepting)].handler = "fail" )
    => /\ result = [kind |-> "Some",
                    value |-> [ok |-> FALSE, handler |-> "fail",
                               data |-> EmptyMap]]
       /\ Len(invoked) = 1
       /\ invoked[1].entry = Least(Accepting)

C3_Witness ==
    /\ Handled
    /\ Cardinality(Accepting) = 2
    /\ binds[1].handler = "fail"
    /\ binds[2].handler = "page"
    /\ result.kind = "Some"
    /\ ~result.value.ok

-----------------------------------------------------------------------------
(* Vocabulary of the properties of StandardResolver.  A token is read from *)
(* its text: a Variable begins with ':', an Optional begins with ':' and   *)
(* ends with '?', anything else is a Literal.                              *)

IsLiteral(t) == Len(t) = 0 \/ t[1] # ":"

IsOptional(t) == Len(t) > 0 /\ t[1] = ":" /\ t[Len(t)] = "?"

IsVariable(t) == Len(t) > 0 /\ t[1] = ":" /\ t[Len(t)] # "?"

\* two Variable/Optional tokens of texts share a name
HasDuplicateName(texts) ==
    \E i, j \in 1..Len(texts) :
        i < j /\ ~IsLiteral(texts[i]) /\ texts[i] = texts[j]

\* the position of the first token whose name an earlier token has
SecondOccurrence(texts) ==
    CHOOSE j \in 1..Len(texts) :
        /\ \E i \in 1..(j - 1) : ~IsLiteral(texts[i]) /\ texts[i] = texts[j]
        /\ \A l \in 1..(j - 1) :
               ~\E i \in 1..(l - 1) : ~IsLiteral(texts[i]) /\ texts[i] = texts[l]

\* token i of texts is content with path: a Literal finds its text, a
\* Variable finds a segment, an Optional is always content
Satisfied(texts, path, i) ==
    /\ IsLiteral(texts[i]) => (i <= Len(path) /\ path[i] = texts[i])
    /\ IsVariable(texts[i]) => i <= Len(path)

\* path gets as far as the second occurrence of a duplicated name
ReachesDuplicate(texts, path) ==
    /\ HasDuplicateName(texts)
    /\ \A i \in 1..SecondOccurrence(texts) : Satisfied(texts, path, i)

TextsOf(tokens) == [i \in 1..Len(tokens) |-> tokens[i].text]

NamedTokens(texts) == {i \in 1..Len(texts) : ~IsLiteral(texts[i])}

Called == params.called

Texts == TextsOf(sr.routing)

Path == params.route

SameMethod == params.method = sr.resolution.method

\* the outcomes of the call: routing.rs always, resolution.rs when the
\* request has the resolver's method
Outcomes ==
    {outs.routing} \cup (IF SameMethod THEN {outs.resolution} ELSE {})

VarA == <<":", "a">>

OptA == <<":", "a", "?">>

-----------------------------------------------------------------------------
(* C4: for a spec of Literal tokens only, resolve returns Some iff the     *)
(* path has as many segments as the spec has tokens and each segment       *)
(* equals the token at its position; the map is then empty.  A shorter     *)
(* path, a longer path or a different segment gives None.                  *)
C4_LiteralsMatchExactly ==
    (Called /\ \A i \in 1..Len(Texts) : IsLiteral(Texts[i])) =>
        \A o \in Outcomes :
            IF /\ Len(Path) = Len(Texts)
               /\ \A i \in 1..Len(Texts) : Path[i] = Texts[i]
            THEN o.kind = "Some" /\ DOMAIN o.map = {}
            ELSE o.kind = "None"

C4_Witness ==
    /\ Called
    /\ SameMethod
    /\ Len(Texts) = 2
    /\ \A i \in 1..Len(Texts) : IsLiteral(Texts[i])
    /\ Texts[1] # Texts[2]
    /\ Path = Texts
    /\ outs.routing.kind = "Some"
    /\ outs.resolution.kind = "Some"

C10_DuplicateNeverMatches ==
    Called =>
        \A o \in Outcomes :
            /\ HasDuplicateName(Texts) => o.kind # "Some"
            /\ o.kind = "Some" =>
                   /\ \A m, n \in 1..Len(o.writes) :
                          o.writes[m] = o.writes[n] => m = n
                   /\ {o.writes[n] : n \in 1..Len(o.writes)} = DOMAIN o.map

C10_Witness ==
    /\ Called
    /\ SameMethod
    /\ HasDuplicateName(Texts)
    /\ Len(Path) = Len(Texts)
    /\ outs.routing.kind = "Panic"
    /\ outs.resolution.kind = "Panic"

-----------------------------------------------------------------------------
-----------------------------------------------------------------------------
(* C11: a StandardResolver built for one request method answers None to    *)
(* every request of another method, whatever the path and whatever the     *)
(* spec; so a handler registered with ServerBuilder.bind (GET) is never    *)
(* invoked for a POST request and one registered with ServerBuilder.on     *)
(* (POST) never for a GET request.                                         *)
C11_WrongMethodNeverMatches ==
    Handled =>
        /\ \A n \in 1..Len(consulted) :
               LET k == consulted[n].entry
               IN  /\ resolvers[k].resolver.method = binds[k].method
                   /\ binds[k].method # request.method
                          => consulted[n].data.kind = "None"
        /\ \A n \in 1..Len(invoked) :
               binds[invoked[n].entry].method = request.method

C11_Witness ==
    /\ Handled
    /\ Len(binds) = 2
    /\ binds[1].method = "Get"
    /\ binds[1].path = BoundVarA
    /\ binds[2].method = "Post"
    /\ binds[2].path = BoundVarA
    /\ request.method = "Post"
    /\ Len(request.path) = 1
    /\ Len(invoked) = 1
    /\ invoked[1].entry = 2

-----------------------------------------------------------------------------
(* Vocabulary of the properties of compilation *)

\* position p of s holds a slash that separates two pieces: a non-slash
\* stands somewhere before it and directly after it
IsSeparator(s, p) ==
    /\ s[p] = "/"
    /\ p < Len(s)
    /\ s[p + 1] # "/"
    /\ \E q \in 1..(p - 1) : s[q] # "/"

\* s without its leading, trailing and repeated slashes
RECURSIVE SqueezeFrom(_, _)
SqueezeFrom(s, p) ==
    IF p > Len(s) THEN << >>
    ELSE IF s[p] # "/" \/ IsSeparator(s, p)
         THEN <<s[p]>> \o SqueezeFrom(s, p + 1)
         ELSE SqueezeFrom(s, p + 1)

Squeeze(s) == SqueezeFrom(s, 1)

\* the two strings differ in insignificant slashes only
SlashesOnly == Squeeze(params.left) = Squeeze(params.right)

(* C12: registration splits the specification string on "/" and discards   *)
(* the empty pieces: two strings that differ only in leading, trailing and *)
(* repeated slashes compile to the same token sequence and give the same   *)
(* outcome, bindings included, for every route; a string of slashes only   *)
(* (and the empty string) compiles to the empty token sequence, which      *)
(* accepts the empty path and no other.                                    *)
C12_SlashesInsignificant ==
    /\ Len(resolvers) = 2 /\ SlashesOnly
           => resolvers[1].resolver = resolvers[2].resolver
    /\ Len(resolvers) = 2 /\ SlashesOnly /\ params.called
           => outs.left = outs.right
    /\ Len(resolvers) >= 1 /\ Squeeze(params.left) = << >>
           => resolvers[1].resolver = << >>
    /\ Len(resolvers) = 2 /\ Squeeze(params.left) = << >> /\ params.called
           => /\ outs.left.kind # "Panic"
              /\ outs.left.kind = "Some" <=> request = << >>

\* "/f/:" against "f//:", both accepting the route f/g with ":" bound to g
C12_Witness ==
    /\ params.called
    /\ params.left = <<"/", "f", "/", ":">>
    /\ params.right = <<"f", "/", "/", ":">>
    /\ request = <<<<"f">>, <<"g">>>>
    /\ outs.left.kind = "Some"
    /\ outs.right.kind = "Some"
    /\ outs.left.map[<<":">>] = <<"g">>

-----------------------------------------------------------------------------
(* Vocabulary of the properties of the server *)

\* Server::handle has answered the request (or panicked on it)
Served == result.kind # "NotHandled"

\* what page k of the Server says about the request
PageOutcome(k) == RouteResolver_resolve(resolvers[k].resolver, request)

NoPageAccepts == \A k \in 1..Len(resolvers) : PageOutcome(k).kind # "Some"

NoPagePanics == \A k \in 1..Len(resolvers) : PageOutcome(k).kind # "Panic"

\* a page handler, not the 404 handler, was called
PageInvoked == Len(invoked) = 1 /\ invoked[1].entry > 0

\* the handler that returns Err
Fails(handler) == handler = "fail"

\* the specification of the n-th call of on_page accepts the request
Accepts(n) ==
    routing_resolve(routing_new(remove_empty(split(binds[n].path))),
                    request).kind = "Some"

(* C13: Server::handle turns the outcome of the matched handler into the   *)
(* status of the response: Ok(view) gives status Ok (200) with the view's  *)
(* content as body, Err(e) gives InternalServerError (500) with the text   *)
(* of e as body; whenever a handler was called, handle returns             *)
(* Ok(response), so the error of a handler never leaves handle as an Err.  *)
C13_HandlerOutcomeDecidesStatus ==
    /\ Served /\ Len(invoked) = 1 => result.kind = "Ok"
    /\ Served /\ PageInvoked =>
           LET handler == resolvers[invoked[1].entry].handler
           IN  /\ result.body.handler = handler
               /\ ~Fails(handler) =>
                      /\ result.status = "Ok"
                      /\ result.body.ok
                      /\ result.body.data = invoked[1].data
               /\ Fails(handler) =>
                      /\ result.status = "InternalServerError"
                      /\ ~result.body.ok

C13_Witness ==
    /\ Served
    /\ PageInvoked
    /\ Fails(resolvers[invoked[1].entry].handler)
    /\ invoked[1].data = (<<":", "a">> :> <<"g">>)
    /\ result.status = "InternalServerError"

DistinctSpecs ==
    \A n, m \in 1..Len(binds) :
        n # m => Squeeze(binds[n].path) # Squeeze(binds[m].path)

(* C15 as stated: the server tries the pages in the order in which on_page *)
(* registered them: when several registered specifications accept the      *)
(* request path, the handler of the first of them is the one invoked, on   *)
(* every run.  Stated for registrations of pairwise different              *)
(* specifications, where no call of on_page replaces an earlier one.       *)
C15_RegistrationOrder ==
    Served /\ DistinctSpecs =>
        \A n \in 1..Len(binds) :
            /\ Accepts(n)
            /\ \A m \in 1..(n - 1) : ~Accepts(m)
            /\ \E m \in (n + 1)..Len(binds) : Accepts(m)
            => /\ PageInvoked
               /\ resolvers[invoked[1].entry].handler = binds[n].handler

(* C16: once the server has started, no step changes the list of pages or  *)
(* the 404 handler, and no thread ever holds or takes the write lock: the  *)
(* requests take read locks only.  So a thread that is free can begin a    *)
(* request whatever the other threads are doing, and the response of each  *)
(* request is the one Server::handle gives for its route alone.            *)
C16_SharedReadOnly ==
    /\ [][phase = "serve" =>
             /\ phase' = phase
             /\ resolvers' = resolvers
             /\ pages' = pages
             /\ page_not_found' = page_not_found]_vars
    /\ [](phase = "serve" =>
             /\ ~lock.writer
             /\ \A w \in Workers :
                    /\ threads[w].guard # "write"
                    /\ threads[w].pc = "idle" =>
                           \A path \in WorkerPaths : ENABLED worker_read(w, path)
                    /\ threads[w].pc = "responded" =>
                           threads[w].response =
                               Server_handle(resolvers, page_not_found,
                                             threads[w].path).result)

\* two requests in flight at once: one has its response while the other is
\* in the middle of the list
C16_Witness ==
    /\ phase = "serve"
    /\ Len(resolvers) = 2
    /\ lock.readers = 2
    /\ threads["w1"].pc = "responded"
    /\ threads["w1"].response.status = "InternalServerError"
    /\ threads["w2"].pc = "handle"
    /\ threads["w2"].k = 2
    /\ threads["w2"].path # threads["w1"].path

-----------------------------------------------------------------------------
(* Vocabulary of the properties of the decorators *)

\* the n-th application of the chain was one of a Surround
IsSurround(n) == applied[n].decorator.kind = "Surround"

\* the positions of the template at which the delimiter stands
DelimiterAt(t) ==
    { p \in 1..Len(t) :
          /\ p + 9 <= Len(t)
          /\ <<t[p], t[p + 1]>> = <<"{", "{">>
          /\ <<t[p + 2], t[p + 3], t[p + 4], t[p + 5], t[p + 6], t[p + 7]>>
                 = <<"m", "i", "d", "d", "l", "e">>
          /\ <<t[p + 8], t[p + 9]>> = <<"}", "}">> }

\* the end of the suffix: just before the second delimiter, or the end
SuffixEnd(t) ==
    LET first == Least(DelimiterAt(t))
        later == { p \in DelimiterAt(t) : p >= first + 10 }
    IN  IF later = {} THEN Len(t) ELSE Least(later) - 1

Star == Surround_new(<<"*">>, <<"*">>)

StarFoo == Surround_new(<<"*", "f">>, <<"z", "*">>)

\* "<p><em>" word "</em></p>\n"
EmphasisedParagraph(word) ==
    <<"<", "p", ">", "<", "e", "m", ">">> \o word
        \o <<"<", "/", "e", "m", ">", "<", "/", "p", ">", "\n">>

\* "<p>" word "</p>\n"
Paragraph(word) == <<"<", "p", ">">> \o word \o <<"<", "/", "p", ">", "\n">>

(* C17: Surround::decorate gives, for every view and every pre and post,   *)
(* a view whose content is pre, then the old content, then post, and whose *)
(* MIME type is the one of the view it was given.                          *)
C17_SurroundConcatenates ==
    \A n \in 1..Len(applied) :
        IsSurround(n) =>
            LET pre == applied[n].decorator.pre
                post == applied[n].decorator.post
                old == applied[n].input.content
                new == applied[n].output.content
            IN  /\ applied[n].output.mime = applied[n].input.mime
                /\ Len(new) = Len(pre) + Len(old) + Len(post)
                /\ \A p \in 1..Len(pre) : new[p] = pre[p]
                /\ \A p \in 1..Len(old) : new[Len(pre) + p] = old[p]
                /\ \A p \in 1..Len(post) : new[Len(pre) + Len(old) + p] = post[p]

C17_Witness ==
    /\ Len(applied) = 2
    /\ applied[1].decorator = Markdown
    /\ applied[2].decorator = StarFoo
    /\ applied[2].input.content = Paragraph(<<"b">>)
    /\ the_view.mime = "text/html"
    /\ the_view.content = <<"*", "f">> \o Paragraph(<<"b">>) \o <<"z", "*">>

(* C18: Surround::from splits the template on "{{middle}}": without a      *)
(* delimiter the prefix is empty and the suffix is the whole template;     *)
(* with one or more the prefix is the text before the first delimiter and  *)
(* the suffix the text between the first and the second (or up to the end  *)
(* when there is one only), the rest being dropped.  So the template       *)
(* f{{middle}}z{{middle}}f applied to "b" gives "fbz", and a template      *)
(* p{{middle}}s with no delimiter in p and s makes Surround::new(p, s).    *)
C18_FromSplitsOnFirstDelimiter ==
    params.called =>
        LET t == params.template
            d == applied[1].decorator
        IN  /\ DelimiterAt(t) = {} =>
                   /\ d = Surround_new(EmptyStr, t)
                   /\ the_view.content = applied[1].input.content \o t
            /\ DelimiterAt(t) # {} =>
                   /\ d.pre = SubSeq(t, 1, Least(DelimiterAt(t)) - 1)
                   /\ d.post = SubSeq(t, Least(DelimiterAt(t)) + 10, SuffixEnd(t))
            /\ Cardinality(DelimiterAt(t)) = 1 =>
                   t = d.pre \o Delimiter \o d.post
            /\ ( /\ t = <<"f">> \o Delimiter \o <<"z">> \o Delimiter \o <<"f">>
                 /\ applied[1].input.content = <<"b">> )
               => the_view.content = <<"f", "b", "z">>

C18_Witness ==
    /\ params.called
    /\ params.template = <<"f">> \o Delimiter \o <<"z">> \o Delimiter \o <<"f">>
    /\ applied[1].input = View_raw(<<"b">>)
    /\ the_view.content = <<"f", "b", "z">>

(* C19: chaining is left to right: v.apply(d1).apply(d2) is                *)
(* d2.decorate(d1.decorate(v)): the first decorator gets the view the      *)
(* handler began with, every later one gets exactly the output of the one  *)
(* before it, and the view in hand is the output of the last; with         *)
(* Surround("*f", "z*") and then Markdown on "b" it is the rendering of    *)
(* the surrounded text "*fbz*".                                            *)
C19_ChainLeftToRight ==
    /\ \A n \in 1..Len(applied) :
           /\ applied[n].output =
                  Decorator_decorate(applied[n].decorator, applied[n].input)
           /\ n = 1 => /\ applied[n].input.content \in Contents
                       /\ applied[n].input.mime = "text/plain"
           /\ n > 1 => applied[n].input = applied[n - 1].output
           /\ n = Len(applied) => the_view = applied[n].output
    /\ ( /\ Len(applied) = 2
         /\ applied[1].input.content = <<"b">>
         /\ applied[1].decorator = StarFoo
         /\ applied[2].decorator = Markdown )
       => /\ applied[2].input.content = <<"*", "f", "b", "z", "*">>
          /\ the_view.content = EmphasisedParagraph(<<"f", "b", "z">>)
          /\ the_view.mime = "text/html"

C19_Witness ==
    /\ Len(applied) = 2
    /\ applied[1].input.content = <<"b">>
    /\ applied[1].decorator = StarFoo
    /\ applied[2].decorator = Markdown
    /\ the_view.content = EmphasisedParagraph(<<"f", "b", "z">>)

(* C20: the order of two decorators matters: Surround("*", "*") and then   *)
(* Markdown on the content "bar" gives the paragraph with the emphasised   *)
(* text, Markdown and then Surround("*", "*") gives the paragraph between  *)
(* two asterisks, and the two views differ.                                *)
C20_NotCommutative ==
    ( /\ Len(applied) = 2
      /\ applied[1].input = View_raw(<<"b">>)
      /\ {applied[1].decorator, applied[2].decorator} = {Star, Markdown} )
    => /\ the_view #
              View_apply(View_apply(applied[1].input, applied[2].decorator),
                         applied[1].decorator)
       /\ applied[1].decorator = Star =>
              the_view.content = EmphasisedParagraph(<<"b">>)
       /\ applied[1].decorator = Markdown =>
              the_view.content = <<"*">> \o Paragraph(<<"b">>) \o <<"*">>

C20_Witness ==
    /\ Len(applied) = 2
    /\ applied[1].input = View_raw(<<"b">>)
    /\ applied[1].decorator = Markdown
    /\ applied[2].decorator = Star
    /\ the_view.content = <<"*">> \o Paragraph(<<"b">>) \o <<"*">>
    /\ the_view.content # EmphasisedParagraph(<<"b">>)

-----------------------------------------------------------------------------
(* Vocabulary of the properties of the views *)

\* the view in hand has been turned into its pair
Consumed == phase = "consumed"

\* the last step applied a decorator to the view
Decorated ==
    /\ Len(applied') = Len(applied) + 1
    /\ applied'[Len(applied')].op = "decorate"

\* the last step called View::mime
MimeSet ==
    /\ Len(applied') = Len(applied) + 1
    /\ applied'[Len(applied')].op = "mime"

(* C21: a View made from a content string c by View::from, from a String   *)
(* or from a &str, and turned into its pair at once gives back exactly c   *)
(* and the MIME type text/plain.                                           *)
C21_RoundTrip ==
    (Consumed /\ params.made = "from" /\ applied = << >>)
        => outs = <<params.content, "text/plain">>

C21_Witness ==
    /\ Consumed
    /\ params.made = "from"
    /\ applied = << >>
    /\ params.content = <<"*", "b", "*", "*">>
    /\ outs[1] = <<"*", "b", "*", "*">>

(* C22 as stated: no operation on an existing View changes its content or  *)
(* its MIME type: between two states that hold a view, only a decorator    *)
(* makes the view in hand differ.                                          *)
C22_Original ==
    [][(phase = "view" /\ phase' = "view" /\ ~Decorated)
           => the_view' = the_view]_vars

(* C22: no operation on an existing View changes its content, but          *)
(* View::mime replaces its MIME type in place with the type it is given    *)
(* (View::path uses it for html files); a different content is only ever   *)
(* obtained as the View a decorator returns, and turning the View into its *)
(* pair leaves the View as it was.                                         *)
C22_ContentImmutableMimeSettable ==
    [][/\ (phase = "view" /\ ~Decorated)
            => the_view'.content = the_view.content
       /\ (phase = "view" /\ ~Decorated /\ ~MimeSet)
            => the_view' = the_view
       /\ MimeSet => the_view'.mime = applied'[Len(applied')].arg
       /\ (params'.made = "path" /\ params.made = "nothing" /\ phase' = "view")
            => /\ the_view'.content = Files[params'.content]
               /\ the_view'.mime = "text/html"
                      <=> params'.content \in
                              { <<"a", ".", "h", "t", "m", "l">>,
                                <<"a", ".", "H", "T", "M">> }]_vars

C22_Witness ==
    /\ phase = "view"
    /\ params.made = "from"
    /\ Len(applied) = 1
    /\ applied[1].op = "mime"
    /\ applied[1].input.mime = "text/plain"
    /\ the_view.mime = "text/html"
    /\ the_view.content = applied[1].input.content

-----------------------------------------------------------------------------
(* Vocabulary of the properties of the FileRouter *)

\* the tokens of the specification given to the FileRouter
FileTokens == remove_empty(split(params.spec))

\* the position of the first '*' among the tokens, 0 when there is none
FirstStar ==
    IF \E k \in 1..Len(FileTokens) : FileTokens[k] = StarToken
    THEN Least({k \in 1..Len(FileTokens) : FileTokens[k] = StarToken})
    ELSE 0

\* a resolver was built and has answered the request
FileAnswered == phase = "built" /\ params.called

\* the specification ends in the wildcard
EndsInStar == FirstStar > 0 /\ FirstStar = Len(FileTokens)

\* the segments before the wildcard are the literals of the specification
LiteralsBeforeStar ==
    /\ Len(request) >= FirstStar
    /\ \A k \in 1..(FirstStar - 1) : request[k] = FileTokens[k]

\* the route from the position of the wildcard to its end, joined by '/'
TailFromStar == join(SubSeq(request, FirstStar, Len(request)), <<"/">>)

\* C23 as stated: a specification ending in '*' that accepts a path reaching
\* the wildcard binds the remaining tail of the path, from the position of
\* the wildcard to the end, joined by '/', as the single value.
C23_Original ==
    (FileAnswered /\ EndsInStar /\ LiteralsBeforeStar /\ outs.kind = "Some")
        => \A k \in DOMAIN outs.map : outs.map[k] = TailFromStar

\* C23: a specification ending in '*' accepts every path whose segments
\* before the position of the wildcard equal the literals, and every path a
\* FileResolver accepts is bound, as the single value "file", to the whole
\* path joined by '/' and not to the tail after the literals.
C23_WildcardBindsFullPath ==
    /\ (FileAnswered /\ EndsInStar /\ LiteralsBeforeStar)
           => outs.kind = "Some"
    /\ (FileAnswered /\ outs.kind = "Some")
           => /\ DOMAIN outs.map = {FileKey}
              /\ outs.map[FileKey] = Flatten(
                     [k \in 1..(2 * Len(request) - 1) |->
                         IF k % 2 = 1 THEN request[(k + 1) \div 2] ELSE <<"/">>])

\* "/f/*" asked about f/g/g binds "f/g/g"
C23_Witness ==
    /\ FileAnswered
    /\ params.spec = <<"/", "f", "/", "*">>
    /\ request = <<<<"f">>, <<"g">>, <<"g">>>>
    /\ outs.kind = "Some"
    /\ outs.map[FileKey] = <<"f", "/", "g", "/", "g">>

\* a token follows the first '*' of the specification
TokenAfterStar == FirstStar > 0 /\ FirstStar < Len(FileTokens)

\* C24: FileRouter.resolver aborts for exactly the specifications in which a
\* token follows the first '*' and builds a resolver of all the tokens for
\* every other specification, so that a resolver that exists when a request
\* is matched has no token after a '*'.
C24_NoTokenAfterStar ==
    /\ phase = "aborted" => TokenAfterStar /\ sr = FileResolver_new(<< >>)
    /\ phase = "built" => ~TokenAfterStar /\ sr.path = FileTokens
    /\ phase \in {"router", "built", "aborted"}
    /\ phase = "router" => ~params.called /\ params.spec = EmptyStr
    /\ params.called =>
           /\ phase = "built"
           /\ \A k \in 1..Len(sr.path) :
                  sr.path[k] = StarToken => k = Len(sr.path)

\* "*/f" is refused
C24_Witness ==
    /\ phase = "aborted"
    /\ params.spec = <<"*", "/", "f">>
    /\ ~params.called

\* C25: a specification of literals only accepts a path iff the path has as
\* many segments as the specification has literals and every segment equals
\* the literal at its position.
C25_LiteralsMatchExactly ==
    (FileAnswered /\ FirstStar = 0)
        => (outs.kind = "Some"
               <=> /\ Len(request) = Len(FileTokens)
                   /\ \A k \in 1..Len(request) : request[k] = FileTokens[k])

-----------------------------------------------------------------------------
(* Empty segments, termination, greediness and the two resolvers *)

\* the request paths that differ from the request only in empty segments
SameButEmpty ==
    {p \in RequestPaths : SelectSeq(p, LAMBDA seg : seg # EmptyStr) = Route}

\* what Router::handle has left behind
Dispatched == [consulted |-> consulted, invoked |-> invoked, result |-> result]

\* C26: Router.handle drops every empty segment of the request path before
\* any resolver sees it: a request is dispatched exactly like every path that
\* differs from it only in empty segments, and in every map a resolver or a
\* handler sees, an empty value belongs to an Optional and never to a
\* Variable.
C26_EmptySegmentsIgnored ==
    Handled =>
        /\ \A p \in SameButEmpty : Router_handle(resolvers, p) = Dispatched
        /\ \A c \in 1..Len(consulted) :
               LET texts == TextsOf(resolvers[consulted[c].entry].resolver)
               IN  \A i \in 1..Len(texts) :
                       (/\ consulted[c].data.kind = "Some"
                        /\ IsVariable(texts[i]))
                           => /\ texts[i] \in DOMAIN consulted[c].data.map
                              /\ consulted[c].data.map[texts[i]] # EmptyStr
        /\ \A c \in 1..Len(invoked) :
               \A name \in DOMAIN invoked[c].data :
                   invoked[c].data[name] = EmptyStr => IsOptional(name)

\* "/:a" asked for //f binds a to f
C26_Witness ==
    /\ Handled
    /\ Len(binds) >= 1
    /\ binds[1].path = BoundVarA
    /\ request = <<EmptyStr, <<"f">>>>
    /\ result.kind = "Some"
    /\ Len(invoked) = 1
    /\ invoked[1].data[VarA] = <<"f">>

\* the texts of the tokens of the resolver whose loops are followed
StepTexts == TextsOf(sr.routing)

\* resolve of resolution.rs has returned or panicked
ResolutionEnded == outs.resolution.kind \in {"None", "Some", "Panic"}

\* resolve of routing.rs has returned or panicked
RoutingEnded == outs.routing.kind \in {"None", "Some", "Panic"}

\* C27, what never happens: with distinct names the body of the loop of
\* resolve runs at most len(spec) times and resolve ends in Some or None,
\* never in a panic, with the outcome of resolution_resolve; Router.handle
\* has called at most len(entries) resolvers, each entry at most once, and
\* ends with the outcome of Router_handle.
C27_Bounded ==
    /\ phase = "unit" =>
           /\ outs.resolution.iterations <= Len(sr.resolution.spec)
           /\ outs.resolution.i <= Len(sr.resolution.spec)
           /\ (ResolutionEnded /\ ~HasDuplicateName(StepTexts))
                  => outs.resolution.kind \in {"Some", "None"}
           /\ ResolutionEnded
                  => FrameOutcome(outs.resolution)
                         = resolution_resolve(sr.resolution,
                               [method |-> params.method, route |-> params.route])
    /\ phase = "serve" =>
           /\ Len(consulted) <= Len(resolvers)
           /\ \A c \in 1..Len(consulted) : consulted[c].entry = c
           /\ Handled => Router_handle(resolvers, request)
                             = [consulted |-> consulted, invoked |-> invoked,
                                result |-> result]

\* C27: resolve and Router.handle keep within those bounds and terminate:
\* every call of resolve comes to an end, and so does every Router.handle.
C27_Terminates ==
    /\ []C27_Bounded
    /\ <>(phase = "unit" => ResolutionEnded)
    /\ <>(phase = "serve" => Handled)

\* ":a/f/:b" asked about f/g: the Literal finds another segment in the
\* second iteration and resolve returns None
C27_Witness ==
    /\ phase = "unit"
    /\ StepTexts = <<VarA, <<"f">>, <<":", "b">>>>
    /\ params.route = <<<<"f">>, <<"g">>>>
    /\ params.method = "Get"
    /\ outs.resolution.kind = "None"
    /\ outs.resolution.iterations = 2

\* C28: an Optional takes the segment at its position whenever there is one
\* and resolve never goes back.  With distinct names, resolve returns Some
\* iff the path is no longer than the spec, every Literal at a position
\* within the path equals the segment there, and every token beyond the path
\* is an Optional; a named token within the path is then bound to the
\* segment of its own position, and one beyond the path to "".
C28_GreedyOptional ==
    (Called /\ ~HasDuplicateName(Texts)) =>
        \A o \in Outcomes :
            /\ o.kind \in {"Some", "None"}
            /\ o.kind = "Some" <=>
                   /\ Len(Path) <= Len(Texts)
                   /\ \A i \in 1..Len(Texts) :
                          /\ (i <= Len(Path) /\ IsLiteral(Texts[i]))
                                 => Path[i] = Texts[i]
                          /\ i > Len(Path) => IsOptional(Texts[i])
            /\ o.kind = "Some" =>
                   /\ DOMAIN o.map = {Texts[i] : i \in NamedTokens(Texts)}
                   /\ \A i \in NamedTokens(Texts) :
                          o.map[Texts[i]] =
                              IF i <= Len(Path) THEN Path[i] ELSE EmptyStr

\* ":a?/f" asked about f: the Optional takes f and the Literal finds nothing
C28_Witness ==
    /\ Called
    /\ SameMethod
    /\ Texts = <<OptA, <<"f">>>>
    /\ Path = <<<<"f">>>>
    /\ outs.routing.kind = "None"
    /\ outs.resolution.kind = "None"

\* C29: the two implementations of resolve agree.  In routing.rs j equals i
\* whenever the test of the loop is made, and for a request with the
\* resolver's method the resolve of routing.rs and the resolve of
\* resolution.rs end alike: both None, both in a panic, or both Some with
\* the same map, which is also what routing_resolve and resolution_resolve
\* compute.
C29_ImplementationsAgree ==
    phase = "unit" =>
        /\ outs.routing.j = outs.routing.i
        /\ RoutingEnded =>
               FrameOutcome(outs.routing) = routing_resolve(sr.routing, params.route)
        /\ (RoutingEnded /\ ResolutionEnded /\ SameMethod) =>
               /\ outs.routing.kind = outs.resolution.kind
               /\ outs.routing.kind = "Some" =>
                      outs.routing.map = outs.resolution.map
               /\ routing_resolve(sr.routing, params.route)
                      = resolution_resolve(sr.resolution,
                            [method |-> params.method, route |-> params.route])

\* "f/:a?" asked about f: both bind the Optional to "" after two iterations
C29_Witness ==
    /\ phase = "unit"
    /\ SameMethod
    /\ StepTexts = <<<<"f">>, OptA>>
    /\ params.route = <<<<"f">>>>
    /\ outs.routing.kind = "Some"
    /\ outs.resolution.kind = "Some"
    /\ outs.routing.i = 2
    /\ outs.routing.j = 2
    /\ outs.resolution.map[OptA] = EmptyStr

-----------------------------------------------------------------------------
(* The pages of the ServerBuilder *)

\* a specification without its leading and trailing slashes
Trimmed(s) ==
    LET keep == {k \in 1..Len(s) : s[k] # "/"}
    IN  IF keep = {} THEN EmptyStr
        ELSE SubSeq(s, Least(keep), Least({k \in keep : \A e \in keep : e <= k}))

\* the on_page calls made for the trimmed specification key
CallsFor(key) == {k \in 1..Len(binds) : Trimmed(binds[k].path) = key}

\* the pages hold one entry for every trimmed specification on_page was
\* called with, and it holds the handler of the last of those calls
PagesAreLastHandlers ==
    /\ DOMAIN pages = {Trimmed(binds[k].path) : k \in 1..Len(binds)}
    /\ \A key \in DOMAIN pages :
           \A k \in CallsFor(key) :
               (\A l \in CallsFor(key) : l <= k) => pages[key] = binds[k].handler

\* a step of on_page: it touches the entry of its trimmed specification and
\* nothing else
OnPageFrame ==
    binds' # binds =>
        LET last == binds'[Len(binds')]
            key == Trimmed(last.path)
        IN  /\ binds' = Append(binds, last)
            /\ DOMAIN pages' = DOMAIN pages \cup {key}
            /\ pages'[key] = last.handler
            /\ \A other \in DOMAIN pages : other # key => pages'[other] = pages[other]
            /\ page_not_found' = page_not_found

\* a step that changes the 404 handler or the pages without an on_page call:
\* on_page_not_found, which leaves the pages alone
OnPageNotFoundFrame ==
    /\ page_not_found' # page_not_found =>
           /\ page_not_found' \in Handlers
           /\ pages' = pages
           /\ binds' = binds
    /\ pages' # pages => binds' # binds

\* C30: on_page keys the handlers by the trimmed specification: after any
\* calls there is exactly one page per distinct trimmed specification, with
\* the handler of the last on_page for it; on_page_not_found keeps the last
\* handler only; neither call changes another entry.
C30_PagesKeyedByTrimmedSpec ==
    /\ []PagesAreLastHandlers
    /\ [][OnPageFrame /\ OnPageNotFoundFrame]_vars

\* on_page("/f", page) then on_page("f/", fail): one page, f, with fail
C30_Witness ==
    /\ Len(binds) = 2
    /\ binds[1] = [path |-> <<"/", "f">>, handler |-> "page"]
    /\ binds[2] = [path |-> <<"f", "/">>, handler |-> "fail"]
    /\ DOMAIN pages = {<<"f">>}
    /\ pages[<<"f">>] = "fail"
    /\ page_not_found = "fail"

====
